---- MODULE Spec2Model ----
(***************************************************************************)
(* Cloudflare DNS Record ID Display extension: the content script (rich   *)
(* variant with Terraform templates, and the minimal variant), its         *)
(* template renderer and the store of the two templates.                   *)
(*                                                                         *)
(* A JavaScript string is a sequence of one-character strings.  null and   *)
(* undefined are the one-element sequence Null, whose element is no        *)
(* character.                                                              *)
(***************************************************************************)
EXTENDS Integers, Sequences, FiniteSets, TLC

Null == <<"null">>

\* JavaScript truthiness of a string-or-null value: null and "" are falsy.
Truthy(s) == s # Null /\ s # <<>>

\* a || b on string-or-null values
OrElse(a, b) == IF Truthy(a) THEN a ELSE b

RECURSIVE Concat(_)
\* the concatenation of a sequence of strings
Concat(ss) == IF ss = <<>> THEN <<>> ELSE Head(ss) \o Concat(Tail(ss))

(***************************************************************************)
(* Constants of the content script                                         *)
(***************************************************************************)
STORAGE_KEY_RESOURCE == "resourceTemplate"

STORAGE_KEY_IMPORT == "importTemplate"

StorageKeys == {STORAGE_KEY_RESOURCE, STORAGE_KEY_IMPORT}

DEFAULT_RESOURCE_TEMPLATE ==
    <<"r", "e", "s", "o", "u", "r", "c", "e", " ", "\"", "c", "l", "o", "u", "d", "f", "l",
    "a", "r", "e", "_", "r", "e", "c", "o", "r", "d", "\"", " ", "\"", "{", "{", "r", "e",
    "s", "o", "u", "r", "c", "e", "N", "a", "m", "e", "}", "}", "\"", " ", "{", "\n", " ",
    " ", "z", "o", "n", "e", "_", "i", "d", " ", "=", " ", "\"", "Z", "O", "N", "E", "_",
    "I", "D", "\"", "\n", " ", " ", "n", "a", "m", "e", " ", " ", " ", " ", "=", " ", "\"",
    "{", "{", "n", "a", "m", "e", "}", "}", "\"", "\n", " ", " ", "t", "y", "p", "e", " ",
    " ", " ", " ", "=", " ", "\"", "{", "{", "t", "y", "p", "e", "}", "}", "\"", "\n", " ",
    " ", "c", "o", "n", "t", "e", "n", "t", " ", "=", " ", "\"", "{", "{", "c", "o", "n",
    "t", "e", "n", "t", "}", "}", "\"", "\n", " ", " ", "t", "t", "l", " ", " ", " ", " ",
    " ", "=", " ", "{", "{", "t", "t", "l", "S", "e", "c", "o", "n", "d", "s", "}", "}",
    "\n", " ", " ", "p", "r", "o", "x", "i", "e", "d", " ", "=", " ", "{", "{", "p", "r",
    "o", "x", "i", "e", "d", "}", "}", "\n", "}">>

DEFAULT_IMPORT_TEMPLATE ==
    <<"i", "m", "p", "o", "r", "t", " ", "{", "\n", " ", " ", "t", "o", " ", "=", " ", "c",
    "l", "o", "u", "d", "f", "l", "a", "r", "e", "_", "r", "e", "c", "o", "r", "d", ".",
    "{", "{", "r", "e", "s", "o", "u", "r", "c", "e", "N", "a", "m", "e", "}", "}", "\n",
    " ", " ", "i", "d", " ", "=", " ", "\"", "Z", "O", "N", "E", "_", "I", "D", "/", "{",
    "{", "r", "e", "c", "o", "r", "d", "I", "d", "}", "}", "\"", "\n", "}">>

(***************************************************************************)
(* The template renderer                                                   *)
(***************************************************************************)
\* The text of the regular expression /\{\{<name>\}\}/: the literal {{<name>}}.
Placeholder(name) == <<"{", "{">> \o name \o <<"}", "}">>

N_recordId == <<"r", "e", "c", "o", "r", "d", "I", "d">>

N_zoneName == <<"z", "o", "n", "e", "N", "a", "m", "e">>

N_type == <<"t", "y", "p", "e">>

N_name == <<"n", "a", "m", "e">>

N_content == <<"c", "o", "n", "t", "e", "n", "t">>

N_ttl == <<"t", "t", "l">>

N_ttlSeconds == <<"t", "t", "l", "S", "e", "c", "o", "n", "d", "s">>

N_proxied == <<"p", "r", "o", "x", "i", "e", "d">>

N_resourceName == <<"r", "e", "s", "o", "u", "r", "c", "e", "N", "a", "m", "e">>

\* The backtick character, which a TLA+ string cannot hold.
Backtick == "BACKTICK"

RECURSIVE GetSubstitution(_, _, _, _)
\* What String.prototype.replace inserts for one match of a pattern without
\* capture groups: $$ is $, $& the matched text, $ and a backtick the text
\* before the match,
\* $' the text after it; any other character, and a $ followed by anything
\* else, stands for itself.
GetSubstitution(matched, str, position, replacement) ==
    IF replacement = <<>> THEN <<>>
    ELSE IF Head(replacement) = "$" /\ Len(replacement) >= 2
              /\ replacement[2] \in {"$", "&", Backtick, "'"}
    THEN LET c == replacement[2]
             rest == SubSeq(replacement, 3, Len(replacement))
             ins == CASE c = "$" -> <<"$">>
                      [] c = "&" -> matched
                      [] c = Backtick -> SubSeq(str, 1, position - 1)
                      [] OTHER -> SubSeq(str, position + Len(matched), Len(str))
         IN ins \o GetSubstitution(matched, str, position, rest)
    ELSE <<Head(replacement)>>
             \o GetSubstitution(matched, str, position, Tail(replacement))

\* The position of the leftmost match of the literal pattern in str at or
\* after position i, or 0 when there is none.
NextMatch(str, pattern, i) ==
    LET found == {p \in i..(Len(str) - Len(pattern) + 1) :
                      SubSeq(str, p, p + Len(pattern) - 1) = pattern}
    IN IF found = {} THEN 0 ELSE CHOOSE p \in found : \A q \in found : p <= q

RECURSIVE ReplaceFrom(_, _, _, _)
\* str.replace(/pattern/g, replacement) from position i on: the matches are
\* found left to right and do not overlap; text between them is copied.
ReplaceFrom(str, pattern, replacement, i) ==
    LET p == NextMatch(str, pattern, i)
    IN IF p = 0 THEN SubSeq(str, i, Len(str))
       ELSE SubSeq(str, i, p - 1)
                \o GetSubstitution(pattern, str, p, replacement)
                \o ReplaceFrom(str, pattern, replacement, p + Len(pattern))

\* str.replace(/\{\{name\}\}/g, replacement)
Replace(str, name, replacement) ==
    ReplaceFrom(str, Placeholder(name), replacement, 1)

Digits == <<"0", "1", "2", "3", "4", "5", "6", "7", "8", "9">>

RECURSIVE NumberToString(_)
\* String(n) of a non-negative integer: its decimal digits
NumberToString(n) ==
    IF n < 10 THEN <<Digits[n + 1]>>
    ELSE NumberToString(n \div 10) \o <<Digits[(n % 10) + 1]>>

\* String(b) of a boolean
BooleanToString(b) ==
    IF b THEN <<"t", "r", "u", "e">> ELSE <<"f", "a", "l", "s", "e">>

interpolateTemplate(template, vars) ==
    LET s1 == Replace(template, N_recordId, vars.recordId)
        s2 == Replace(s1, N_zoneName, vars.zoneName)
        s3 == Replace(s2, N_type, vars.type)
        s4 == Replace(s3, N_name, vars.name)
        s5 == Replace(s4, N_content, vars.content)
        s6 == Replace(s5, N_ttl, vars.ttl)
        s7 == Replace(s6, N_ttlSeconds, NumberToString(vars.ttlSeconds))
        s8 == Replace(s7, N_proxied, BooleanToString(vars.proxied))
    IN Replace(s8, N_resourceName, vars.resourceName)

(***************************************************************************)
(* The field extractor                                                     *)
(***************************************************************************)
HexLower ==
    {"0", "1", "2", "3", "4", "5", "6", "7", "8", "9", "a", "b", "c", "d", "e", "f"}

WhiteSpace == {" ", "\t", "\n", "\r", "\f"}

LowerLetters ==
    <<"a", "b", "c", "d", "e", "f", "g", "h", "i", "j", "k", "l", "m", "n", "o", "p", "q",
     "r", "s", "t", "u", "v", "w", "x", "y", "z">>

UpperLetters ==
    <<"A", "B", "C", "D", "E", "F", "G", "H", "I", "J", "K", "L", "M", "N", "O", "P", "Q",
     "R", "S", "T", "U", "V", "W", "X", "Y", "Z">>

\* s.trim(): s without its leading and trailing white space
Trim(s) ==
    LET inked == {i \in 1..Len(s) : s[i] \notin WhiteSpace}
    IN IF inked = {} THEN <<>>
       ELSE SubSeq(s, CHOOSE i \in inked : \A j \in inked : i <= j,
                      CHOOSE i \in inked : \A j \in inked : i >= j)

\* s.includes(sub)
Includes(s, sub) == NextMatch(s, sub, 1) # 0

\* The lower-case form of one character
LowerChar(c) ==
    IF \E i \in 1..Len(UpperLetters) : UpperLetters[i] = c
    THEN LowerLetters[CHOOSE i \in 1..Len(UpperLetters) : UpperLetters[i] = c]
    ELSE c

\* s.toLowerCase()
ToLowerCase(s) == [i \in 1..Len(s) |-> LowerChar(s[i])]

ID_SUFFIX == <<"-", "d", "n", "s", "-", "e", "d", "i", "t", "-", "r", "o", "w">>

\* A pattern without the closing anchor: text may follow the suffix
MatchIdRegexOpenEnded(s) ==
    IF /\ Len(s) >= 32 + Len(ID_SUFFIX)
       /\ \A i \in 1..32 : s[i] \in HexLower
       /\ SubSeq(s, 33, 32 + Len(ID_SUFFIX)) = ID_SUFFIX
    THEN SubSeq(s, 1, 32)
    ELSE Null

\* ariaControls.match(ID_REGEX) for ID_REGEX = /^([a-f0-9]{32})-dns-edit-row$/:
\* the first capture group, or Null when the whole string does not match.
MatchIdRegex(s) ==
    IF /\ Len(s) = 32 + Len(ID_SUFFIX)
       /\ \A i \in 1..32 : s[i] \in HexLower
       /\ SubSeq(s, 33, Len(s)) = ID_SUFFIX
    THEN SubSeq(s, 1, 32)
    ELSE Null

\* extractRecordId on a control whose aria-controls attribute is ariaControls
\* (Null when the control has no such attribute).
extractRecordId(ariaControls) ==
    IF ~Truthy(ariaControls) THEN Null ELSE MatchIdRegex(ariaControls)

URL_HOST == <<"d", "a", "s", "h", ".", "c", "l", "o", "u", "d", "f", "l", "a", "r", "e", ".", "c",
     "o", "m", "/">>

URL_TAIL == <<"/", "d", "n", "s", "/", "r", "e", "c", "o", "r", "d", "s">>

\* Whether URL_REGEX matches str starting at position i, and the segment it
\* captures: dash.cloudflare.com/, 32 hexadecimal characters, /, one or more
\* characters that are not /, then /dns/records.
UrlMatchAt(str, i) ==
    LET idStart == i + Len(URL_HOST)
        segStart == idStart + 33
        slashes == {j \in segStart..Len(str) : str[j] = "/"}
        segEnd == IF slashes = {} THEN Len(str) + 1
                  ELSE CHOOSE j \in slashes : \A k \in slashes : j <= k
    IN IF /\ segStart <= Len(str)
          /\ SubSeq(str, i, idStart - 1) = URL_HOST
          /\ \A j \in idStart..(idStart + 31) : str[j] \in HexLower
          /\ str[idStart + 32] = "/"
          /\ segEnd > segStart
          /\ segEnd + Len(URL_TAIL) - 1 <= Len(str)
          /\ SubSeq(str, segEnd, segEnd + Len(URL_TAIL) - 1) = URL_TAIL
       THEN SubSeq(str, segStart, segEnd - 1)
       ELSE Null

\* getZoneNameFromUrl for window.location.href = href: the capture of the
\* leftmost match of URL_REGEX, or Null.
getZoneNameFromUrl(href) ==
    LET starts == {i \in 1..Len(href) : UrlMatchAt(href, i) # Null}
    IN IF starts = {} THEN Null
       ELSE UrlMatchAt(href, CHOOSE i \in starts : \A j \in starts : i <= j)

ORANGE_MARK == <<"Z", "m", "Y", "4", "Y", "z", "A", "w">>

AUTO == <<"A", "u", "t", "o">>

\* A table cell as the extractor's selectors see it: span is the text of its
\* span[title] element, title and text the title attribute and the text of
\* its div element, img the address of its img element; each is Null when the
\* cell has no such element (title also when the div has no title attribute).
\* own tells the cell the content script inserted from the host page's cells.
Cell(span, title, text, img) ==
    [own |-> FALSE, span |-> span, title |-> title, text |-> text, img |-> img]

\* nameDiv?.getAttribute('title') || nameDiv?.textContent?.trim() || ''
\* for nameDiv = cell.querySelector('div[title]')
TitleOrText(cell) ==
    IF cell.title = Null THEN <<>>
    ELSE OrElse(cell.title, OrElse(Trim(cell.text), <<>>))

\* DnsRecordData | null: the record that stands for null
NullData ==
    [recordId |-> Null, zoneName |-> Null, type |-> Null, name |-> Null,
     content |-> Null, ttl |-> Null, proxied |-> FALSE]

\* extractRecordData on a row whose td elements are cells, with the page at
\* address href: the record, or NullData.
extractRecordData(href, cells, recordId) ==
    LET zoneName == getZoneNameFromUrl(href)
    IN IF ~Truthy(zoneName) THEN NullData
       ELSE IF Len(cells) < 7 THEN NullData
       ELSE [recordId |-> recordId,
             zoneName |-> zoneName,
             type |-> IF cells[3].span = Null THEN <<>> ELSE Trim(cells[3].span),
             name |-> TitleOrText(cells[4]),
             content |-> TitleOrText(cells[5]),
             ttl |-> IF cells[7].text = Null THEN AUTO
                     ELSE OrElse(Trim(cells[7].text), AUTO),
             proxied |-> IF cells[6].img = Null THEN FALSE
                         ELSE Includes(cells[6].img, ORANGE_MARK)]

(***************************************************************************)
(* The template variable builder                                           *)
(***************************************************************************)
IsDigit(c) == \E i \in 1..Len(Digits) : Digits[i] = c

IsWordChar(c) ==
    \/ IsDigit(c)
    \/ c = "_"
    \/ \E i \in 1..Len(LowerLetters) : LowerLetters[i] = c \/ UpperLetters[i] = c

\* s.replace(/\./g, '_').replace(/[^a-zA-Z0-9_]/g, '_')
Underscored(s) ==
    [i \in 1..Len(s) |-> IF s[i] = "." \/ ~IsWordChar(s[i]) THEN "_" ELSE s[i]]

RECURSIVE CollapseFrom(_, _)
\* s.replace(/_+/g, '_') from position i on: every run of underscores
\* becomes one underscore.
CollapseFrom(s, i) ==
    IF i > Len(s) THEN <<>>
    ELSE IF s[i] = "_" /\ i > 1 /\ s[i - 1] = "_" THEN CollapseFrom(s, i + 1)
    ELSE <<s[i]>> \o CollapseFrom(s, i + 1)

\* A trim that removes an underscore at the start only
TrimLeadingUnderscore(s) ==
    IF s # <<>> /\ Head(s) = "_" THEN Tail(s) ELSE s

\* s.replace(/^_|_$/g, ''): an underscore at the start is removed, and an
\* underscore at the end of what follows it.
TrimUnderscores(s) ==
    LET t == IF s # <<>> /\ Head(s) = "_" THEN Tail(s) ELSE s
    IN IF t # <<>> /\ t[Len(t)] = "_" THEN SubSeq(t, 1, Len(t) - 1) ELSE t

DNS_RECORD == <<"d", "n", "s", "_", "r", "e", "c", "o", "r", "d">>

\* A name made of the slug alone, without the type and its underscore
slugBeforeFallback(name, type) ==
    TrimUnderscores(CollapseFrom(Underscored(name), 1))

\* The variable resourceName of toTerraformResourceName as it stands before
\* the return statement
resourceNameBeforeFallback(name, type) ==
    LET slug == TrimUnderscores(CollapseFrom(Underscored(name), 1))
        typed == ToLowerCase(type) \o <<"_">> \o slug
    IN IF IsDigit(Head(typed)) THEN <<"r", "_">> \o typed ELSE typed

\* return resourceName || 'dns_record'
toTerraformResourceName(name, type) ==
    OrElse(resourceNameBeforeFallback(name, type), DNS_RECORD)

RECURSIVE ParseInt(_)
\* parseInt(digits, 10) of a non-empty string of decimal digits
ParseInt(digits) ==
    LET last == CHOOSE d \in 0..9 : Digits[d + 1] = digits[Len(digits)]
    IN IF Len(digits) = 1 THEN last
       ELSE 10 * ParseInt(SubSeq(digits, 1, Len(digits) - 1)) + last

\* Whether word, ignoring case, stands in s at position i
WordAt(s, i, word) ==
    /\ i + Len(word) - 1 <= Len(s)
    /\ ToLowerCase(SubSeq(s, i, i + Len(word) - 1)) = word

parseTtl(ttlStr) ==
    IF ToLowerCase(ttlStr) = <<"a", "u", "t", "o">> THEN 1
    ELSE \* ttlStr.match(/(\d+)\s*(min|hour|day|sec)?/i): the leftmost run of
         \* digits, the white space after it, and a unit word if one follows
         LET digitAt == {i \in 1..Len(ttlStr) : IsDigit(ttlStr[i])}
         IN IF digitAt = {} THEN 1
            ELSE LET first == CHOOSE i \in digitAt : \A j \in digitAt : i <= j
                     after == {i \in first..(Len(ttlStr) + 1) :
                                   i > Len(ttlStr) \/ ~IsDigit(ttlStr[i])}
                     stop == CHOOSE i \in after : \A j \in after : i <= j
                     inked == {i \in stop..(Len(ttlStr) + 1) :
                                   i > Len(ttlStr) \/ ttlStr[i] \notin WhiteSpace}
                     word == CHOOSE i \in inked : \A j \in inked : i <= j
                     value == ParseInt(SubSeq(ttlStr, first, stop - 1))
                 IN CASE WordAt(ttlStr, word, <<"m", "i", "n">>) -> value * 60
                      [] WordAt(ttlStr, word, <<"h", "o", "u", "r">>) -> value * 3600
                      [] WordAt(ttlStr, word, <<"d", "a", "y">>) -> value * 86400
                      [] OTHER -> value

\* A builder that takes every TTL for automatic
buildTemplateVariablesAutoTtl(data) ==
    [recordId |-> data.recordId,
     zoneName |-> data.zoneName,
     type |-> data.type,
     name |-> data.name,
     content |-> data.content,
     ttl |-> data.ttl,
     ttlSeconds |-> 1,
     proxied |-> data.proxied,
     resourceName |-> toTerraformResourceName(data.name, data.type)]

buildTemplateVariables(data) ==
    [recordId |-> data.recordId,
     zoneName |-> data.zoneName,
     type |-> data.type,
     name |-> data.name,
     content |-> data.content,
     ttl |-> data.ttl,
     ttlSeconds |-> parseTtl(data.ttl),
     proxied |-> data.proxied,
     resourceName |-> toTerraformResourceName(data.name, data.type)]

(***************************************************************************)
(* The page and the content script's state                                 *)
(***************************************************************************)
VARIABLES
    variant,           \* which content script runs: "rich" or "minimal"
    page,              \* the document, its address and the observer's queue
    initPc,            \* where init stands: "idle", "loading", "watching"
    resourceTemplate,  \* the loaded resource template
    importTemplate,    \* the loaded import template
    store,             \* chrome.storage.sync: key -> value, Null when absent
    getReply,          \* the reply to loadTemplates' storage read
    listening,         \* whether the storage change listener is registered
    notifications,     \* storage change events on their way to the page
    notified,          \* per key, the value the last handled change gave it
    writes,            \* clipboard writes not yet settled
    timers,            \* feedback timers not yet fired, oldest first
    clipboard,         \* the text on the clipboard
    scans,             \* how many full scans (processTable) have run
    ops                \* how many inputs the page has had: changes by the
                       \* host page, changes of the store, copy clicks

VARIABLES
    rTemplate,         \* rendering on its own: the template
    rVars,             \* the variables
    rOut,              \* the rendered text
    rOut2,             \* the rendered text, rendered again
    rPc                \* "off", "input", "rendered", "rerendered"

renderVars == <<rTemplate, rVars, rOut, rOut2, rPc>>

VARIABLES
    fName,             \* a function called on its own: its name
    fArgs,             \* its arguments
    fResult,           \* what it returned
    fPc                \* "off", "input", "returned"

functionVars == <<fName, fArgs, fResult, fPc>>

VARIABLES
    oPc,               \* the options page: "off", "loading", "ready"
    resourceTextarea,  \* the value of the resource template's textarea
    importTextarea,    \* the value of the import template's textarea
    statusDiv,         \* the status element: its text and its class
    setCalls,          \* the options page's writes the store has not settled
    statusTimers       \* how many of showStatus's timers have not fired

optionsVars ==
    <<oPc, resourceTextarea, importTextarea, statusDiv, setCalls, statusTimers>>

NumRows == 2

NumTables == 2

MaxBatch == 2

MaxOps == 4

Rows == 1..NumRows

Tables == 1..NumTables

(***************************************************************************)
(* The host page's markup                                                  *)
(***************************************************************************)
EmptyCell == Cell(Null, Null, Null, Null)

ORANGE_SRC ==
    <<"d", "a", "t", "a", ":", "i", "m", "a", "g", "e", "/", "s", "v", "g", "+", "x", "m",
     "l", ";", "b", "a", "s", "e", "6", "4", ",">>
        \o <<"P", "H", "N">> \o ORANGE_MARK \o <<"=", "=">>

GRAY_SRC ==
    <<"d", "a", "t", "a", ":", "i", "m", "a", "g", "e", "/", "s", "v", "g", "+", "x", "m",
     "l", ";", "b", "a", "s", "e", "6", "4", ",">>
        \o <<"P", "H", "N", "O", "T", "k", "5", "=">>

\* The td elements the host page renders for row r, in the host's order:
\* checkbox, warnings, type, name, content, proxy, ttl, actions.  Odd rows
\* show a proxied A record; even rows a TXT record whose markup lacks the
\* title attribute of the name, the content element, and the ttl element.
HostCells(r) ==
    IF r % 2 = 1
    THEN <<EmptyCell, EmptyCell,
           Cell(<<"A">>, Null, Null, Null),
           Cell(Null, <<"w", "w", "w", ".", "e", "x", "a", "m", "p", "l", "e", ".", "c", "o", "m">>,
                <<"w", "w", "w">>, Null),
           Cell(Null, <<"1", "9", "2", ".", "0", ".", "2", ".", "1">>,
                <<"1", "9", "2", ".", "0", ".", "2", ".", "1">>, Null),
           Cell(Null, Null, Null, ORANGE_SRC),
           Cell(Null, Null, <<"5", " ", "m", "i", "n">>, Null),
           EmptyCell>>
    ELSE <<EmptyCell, EmptyCell,
           Cell(<<" ", "T", "X", "T", "\n">>, Null, Null, Null),
           Cell(Null, <<>>, <<" ", "_", "d", "m", "a", "r", "c", " ">>, Null),
           EmptyCell,
           Cell(Null, Null, Null, GRAY_SRC),
           EmptyCell,
           EmptyCell>>

\* The identifier of row r's record: 32 hexadecimal characters
RecordIdOf(r) == [i \in 1..32 |-> IF i = 1 THEN Digits[(r % 10) + 1] ELSE "d"]

\* The aria-controls values the host page gives an edit control: the right
\* shape, and a shape ID_REGEX rejects (the suffix of another control).
GoodControls(r) == RecordIdOf(r) \o ID_SUFFIX

BadControls(r) == RecordIdOf(r) \o <<"-", "d", "n", "s", "-", "v", "i", "e", "w", "-", "r", "o", "w">>

\* The fewest td elements a row must hold for the variant to augment it
MinCells == IF variant = "rich" THEN 7 ELSE 5

\* The shapes in which the host page first renders a row: how many cells
\* (all of them, or one fewer than the variant needs), whether it has the
\* edit control, and the control's aria-controls.
RowShapes(r) ==
    {[n |-> Len(HostCells(r)), button |-> TRUE, ariaControls |-> GoodControls(r)],
     [n |-> MinCells - 1, button |-> TRUE, ariaControls |-> GoodControls(r)],
     [n |-> Len(HostCells(r)), button |-> FALSE, ariaControls |-> Null],
     [n |-> Len(HostCells(r)), button |-> TRUE, ariaControls |-> BadControls(r)]}

\* The shapes in which the host page first renders a table's head: no thead
\* yet, or the whole header row.
HeadShapes ==
    {[thead |-> FALSE, headerRow |-> FALSE, ths |-> <<>>],
     [thead |-> TRUE, headerRow |-> TRUE, ths |-> <<"type", "name", "content">>]}

ACCOUNT_ID == [i \in 1..32 |-> IF i % 2 = 1 THEN "a" ELSE "0"]

DNS_URL ==
    <<"h", "t", "t", "p", "s", ":", "/", "/">> \o URL_HOST \o ACCOUNT_ID
        \o <<"/", "e", "x", "a", "m", "p", "l", "e", ".", "c", "o", "m">> \o URL_TAIL

OTHER_URL ==
    <<"h", "t", "t", "p", "s", ":", "/", "/">> \o URL_HOST \o ACCOUNT_ID
        \o <<"/", "e", "x", "a", "m", "p", "l", "e", ".", "c", "o", "m">>
        \o <<"/", "d", "n", "s", "/", "s", "e", "t", "t", "i", "n", "g", "s">>

Urls == {DNS_URL, OTHER_URL}

\* A row element before the host page has created it
NoRow ==
    [parent |-> 0, cells |-> <<>>, button |-> FALSE, ariaControls |-> Null,
     marked |-> FALSE, data |-> NullData,
     idText |-> [text |-> Null, copied |-> FALSE],
     buttons |-> [b \in {"resource", "import"} |-> [title |-> Null, copied |-> FALSE]],
     skipped |-> FALSE, missed |-> FALSE]

\* A table element before the host page has created it
NoTable ==
    [created |-> FALSE, thead |-> FALSE, headerRow |-> FALSE, ths |-> <<>>,
     marked |-> FALSE, skipped |-> FALSE]

\* Nodes of mutation records: a table element, a row element, another
\* element (a cell, a control), a text node.
Node(kind, id) == [kind |-> kind, id |-> id]

Added(node) == [addedNodes |-> <<node>>, removedNodes |-> <<>>]

Removed(node) == [addedNodes |-> <<>>, removedNodes |-> <<node>>]

InDocument(p, t) == \E i \in 1..Len(p.doc) : p.doc[i] = t

RowInDocument(p, r) == p.rows[r].parent # 0 /\ InDocument(p, p.rows[r].parent)

\* A change of the children of a node: the observer queues a record of it
\* when it observes (after observer.observe) and the node is in the document.
Emit(p, inDoc, record) ==
    IF p.observing /\ inDoc THEN [p EXCEPT !.queue = Append(@, record)] ELSE p

(***************************************************************************)
(* The scanner: operators from a page to the page after the call           *)
(***************************************************************************)
RESOURCE_TITLE ==
    <<"C", "o", "p", "y", " ", "T", "e", "r", "r", "a", "f", "o", "r", "m", " ", "r", "e",
     "s", "o", "u", "r", "c", "e", " ", "b", "l", "o", "c", "k">>

IMPORT_TITLE ==
    <<"C", "o", "p", "y", " ", "T", "e", "r", "r", "a", "f", "o", "r", "m", " ", "i", "m",
     "p", "o", "r", "t", " ", "b", "l", "o", "c", "k">>

RESOURCE_FEEDBACK ==
    <<"C", "o", "p", "i", "e", "d", " ", "r", "e", "s", "o", "u", "r", "c", "e", " ", "b",
     "l", "o", "c", "k", "!">>

IMPORT_FEEDBACK ==
    <<"C", "o", "p", "i", "e", "d", " ", "i", "m", "p", "o", "r", "t", " ", "b", "l", "o",
     "c", "k", "!">>

COPIED_TEXT == <<"C", "o", "p", "i", "e", "d", "!">>

\* The td element createIdCell returns.  What it shows is kept with its row:
\* the identifier text in idText, the two buttons in buttons.
IdCell == [own |-> TRUE, span |-> Null, title |-> Null, text |-> Null, img |-> Null]

\* createIdCell with the cell put after cells[2], the type cell
createIdCellAfterType(row, data) ==
    [row EXCEPT
        !.cells = SubSeq(row.cells, 1, 3) \o <<IdCell>>
                      \o SubSeq(row.cells, 4, Len(row.cells)),
        !.data = data,
        !.idText = [text |-> data.recordId, copied |-> FALSE],
        !.buttons = IF variant = "rich"
                    THEN [b \in {"resource", "import"} |->
                             [title |-> IF b = "resource" THEN RESOURCE_TITLE
                                        ELSE IMPORT_TITLE,
                              copied |-> FALSE]]
                    ELSE @]

\* createIdCell and nameCell.insertAdjacentElement('afterend', idCell) on row
\* r: the new cell follows cells[3]; its listeners keep data; the rich
\* variant's cell also holds the two buttons.
createIdCell(row, data) ==
    [row EXCEPT
        !.cells = SubSeq(row.cells, 1, 4) \o <<IdCell>>
                      \o SubSeq(row.cells, 5, Len(row.cells)),
        !.data = data,
        !.idText = [text |-> data.recordId, copied |-> FALSE],
        !.buttons = IF variant = "rich"
                    THEN [b \in {"resource", "import"} |->
                             [title |-> IF b = "resource" THEN RESOURCE_TITLE
                                        ELSE IMPORT_TITLE,
                              copied |-> FALSE]]
                    ELSE @]

\* The record the rich variant extracts and the minimal variant does without:
\* the minimal variant's cell keeps the identifier alone.
RecordDataFor(p, row, recordId) ==
    IF variant = "rich" THEN extractRecordData(p.href, row.cells, recordId)
    ELSE [NullData EXCEPT !.recordId = recordId]

\* An invocation of processRow that inserts nothing: hit tells whether it
\* stopped at the processed marker (skipped) or at a failed extraction.
RowUntouched(p, r, hit) ==
    IF hit THEN [p EXCEPT !.rows[r].skipped = TRUE]
    ELSE [p EXCEPT !.rows[r].missed = TRUE]

\* processRow without the check of the row's marker
processRowUnguarded(p, r) ==
    LET row == p.rows[r]
    IN IF ~row.button THEN RowUntouched(p, r, FALSE)
       ELSE LET recordId == extractRecordId(row.ariaControls)
            IN IF ~Truthy(recordId) THEN RowUntouched(p, r, FALSE)
               ELSE LET recordData == RecordDataFor(p, row, recordId)
                    IN IF recordData = NullData THEN RowUntouched(p, r, FALSE)
                       ELSE IF Len(row.cells) < 5 THEN RowUntouched(p, r, FALSE)
                       ELSE Emit([p EXCEPT !.rows[r] =
                                     [createIdCell(row, recordData)
                                         EXCEPT !.marked = TRUE]],
                                 RowInDocument(p, r), Added(Node("other", 0)))

processRow(p, r) ==
    LET row == p.rows[r]
    IN IF row.marked THEN RowUntouched(p, r, TRUE)
       ELSE IF ~row.button THEN RowUntouched(p, r, FALSE)
       ELSE LET recordId == extractRecordId(row.ariaControls)
            IN IF ~Truthy(recordId) THEN RowUntouched(p, r, FALSE)
               ELSE LET recordData == RecordDataFor(p, row, recordId)
                    IN IF recordData = NullData THEN RowUntouched(p, r, FALSE)
                       ELSE IF Len(row.cells) < 5 THEN RowUntouched(p, r, FALSE)
                       ELSE Emit([p EXCEPT !.rows[r] =
                                     [createIdCell(row, recordData)
                                         EXCEPT !.marked = TRUE]],
                                 RowInDocument(p, r), Added(Node("other", 0)))

\* headerRow.querySelector('th#name'): the place of the first name header
\* cell, or 0
NameHeader(ths) ==
    LET at == {i \in 1..Len(ths) : ths[i] = "name"}
    IN IF at = {} THEN 0 ELSE CHOOSE i \in at : \A j \in at : i <= j

\* addHeaderColumn without the check of the head's marker
addHeaderColumnUnguarded(p, t) ==
    LET table == p.tables[t]
        nameHeader == NameHeader(table.ths)
    IN IF ~table.thead THEN p
       ELSE IF ~table.headerRow THEN p
       ELSE IF nameHeader = 0 THEN p
       ELSE Emit([p EXCEPT
                     !.tables[t].ths = SubSeq(table.ths, 1, nameHeader)
                                           \o <<"resource-id">>
                                           \o SubSeq(table.ths, nameHeader + 1,
                                                     Len(table.ths)),
                     !.tables[t].marked = TRUE],
                 InDocument(p, t), Added(Node("other", 0)))

\* addHeaderColumn with one marker for the page instead of one on each head
addHeaderColumnPageMarker(p, t) ==
    IF \E u \in Tables : p.tables[u].marked THEN p
    ELSE addHeaderColumnUnguarded(p, t)

\* addHeaderColumn on table t.  skipped records that a call stopped at the
\* head's marker.
addHeaderColumn(p, t) ==
    LET table == p.tables[t]
        nameHeader == NameHeader(table.ths)
    IN IF ~table.thead THEN p
       ELSE IF table.marked THEN [p EXCEPT !.tables[t].skipped = TRUE]
       ELSE IF ~table.headerRow THEN p
       ELSE IF nameHeader = 0 THEN p
       ELSE Emit([p EXCEPT
                     !.tables[t].ths = SubSeq(table.ths, 1, nameHeader)
                                           \o <<"resource-id">>
                                           \o SubSeq(table.ths, nameHeader + 1,
                                                     Len(table.ths)),
                     !.tables[t].marked = TRUE],
                 InDocument(p, t), Added(Node("other", 0)))

RECURSIVE ProcessRows(_, _, _)
\* rows.forEach(processRow) for the rows of the set rs, from row r on
ProcessRows(p, rs, r) ==
    IF r > NumRows THEN p
    ELSE ProcessRows(IF r \in rs THEN processRow(p, r) ELSE p, rs, r + 1)

\* document.querySelector('table') and addHeaderColumn on it, if there is one
HeaderCheck(p) == IF p.doc # <<>> THEN addHeaderColumn(p, p.doc[1]) ELSE p

processTable(p) ==
    ProcessRows(HeaderCheck(p), {r \in Rows : RowInDocument(p, r)}, 1)

\* An observer that takes every added element for a reason to process the
\* first row again, whatever its marker says
ProcessAddedRescans(p, node) ==
    IF node.kind = "text" THEN p
    ELSE IF RowInDocument(p, 1) THEN processRowUnguarded(p, 1)
    ELSE p

\* The observer's work on one added node: a row element is processed, then
\* the rows inside the node (only a table element holds rows).  A text node
\* is no Element.
ProcessAdded(p, node) ==
    IF node.kind = "text" THEN p
    ELSE LET p1 == IF node.kind = "row" THEN processRow(p, node.id) ELSE p
         IN ProcessRows(p1,
                        IF node.kind = "table"
                        THEN {r \in Rows : p.rows[r].parent = node.id}
                        ELSE {},
                        1)

RECURSIVE ProcessNodes(_, _)
ProcessNodes(p, nodes) ==
    IF nodes = <<>> THEN p
    ELSE ProcessNodes(ProcessAdded(p, Head(nodes)), Tail(nodes))

\* The callback's outer loop leaving after the first record
ProcessFirstMutation(p, mutations) ==
    IF mutations = <<>> THEN p
    ELSE ProcessNodes(p, Head(mutations).addedNodes)

RECURSIVE ProcessMutations(_, _)
ProcessMutations(p, mutations) ==
    IF mutations = <<>> THEN p
    ELSE ProcessMutations(ProcessNodes(p, Head(mutations).addedNodes),
                          Tail(mutations))

\* node.matches('table') || node.querySelector('table') for some added node
NeedsHeaderCheck(mutations) ==
    \E i \in 1..Len(mutations) :
        \E j \in 1..Len(mutations[i].addedNodes) :
            mutations[i].addedNodes[j].kind = "table"

\* The callback also taking the marker off every row a record removes
observerCallbackUnmarksRemoved(p) ==
    LET mutations == p.queue
        gone == {r \in Rows :
                    \E i \in 1..Len(mutations) :
                        \E j \in 1..Len(mutations[i].removedNodes) :
                            mutations[i].removedNodes[j] = Node("row", r)}
        p1 == ProcessMutations([p EXCEPT !.queue = <<>>], mutations)
        p2 == [p1 EXCEPT !.rows = [r \in Rows |->
                                      IF r \in gone
                                      THEN [p1.rows[r] EXCEPT !.marked = FALSE]
                                      ELSE p1.rows[r]]]
    IN IF NeedsHeaderCheck(mutations) THEN HeaderCheck(p2) ELSE p2

\* The MutationObserver callback on the batch of all queued records
observerCallback(p) ==
    LET mutations == p.queue
        p1 == ProcessMutations([p EXCEPT !.queue = <<>>], mutations)
    IN IF NeedsHeaderCheck(mutations) THEN HeaderCheck(p1) ELSE p1

setupObserver(p) == [p EXCEPT !.observing = TRUE]

(***************************************************************************)
(* Templates: the store, the load at start-up and the change listener      *)
(***************************************************************************)
CUSTOM_RESOURCE ==
    <<"{", "{", "t", "y", "p", "e", "}", "}", " ", "r", "e", "c", "o", "r", "d", " ", "{",
     "{", "n", "a", "m", "e", "}", "}", " ", "-", ">", " ", "{", "{", "c", "o", "n", "t",
     "e", "n", "t", "}", "}", " ", "(", "t", "t", "l", "=", "{", "{", "t", "t", "l", "S",
     "e", "c", "o", "n", "d", "s", "}", "}", ")">>

CUSTOM_IMPORT == <<"i", "d", "=", "{", "{", "r", "e", "c", "o", "r", "d", "I", "d", "}", "}", " ", "z",
     "o", "n", "e", "=", "{", "{", "z", "o", "n", "e", "N", "a", "m", "e", "}", "}">>

NoTemplates == [k \in StorageKeys |-> Null]

DefaultTemplates ==
    [k \in StorageKeys |->
        IF k = STORAGE_KEY_RESOURCE THEN DEFAULT_RESOURCE_TEMPLATE
        ELSE DEFAULT_IMPORT_TEMPLATE]

CustomTemplates ==
    [k \in StorageKeys |->
        IF k = STORAGE_KEY_RESOURCE THEN CUSTOM_RESOURCE ELSE CUSTOM_IMPORT]

\* What the options page can save: the two textareas as edited (here custom
\* texts, or a custom resource text beside an emptied import text), and the
\* defaults its reset button writes.
Saves ==
    {CustomTemplates, [CustomTemplates EXCEPT ![STORAGE_KEY_IMPORT] = <<>>],
     DefaultTemplates}

\* result[KEY] || DEFAULT
TemplateOrDefault(value, key) == OrElse(value, DefaultTemplates[key])

\* The listener with its test of the area turned around
onChangedOtherAreas(current, key, changes, areaName) ==
    IF areaName = "sync" THEN current
    ELSE IF key \in DOMAIN changes THEN TemplateOrDefault(changes[key], key)
    ELSE current

\* The listener of chrome.storage.onChanged: the template it leaves in the
\* slot of key, which held current, after an event with these changes.
onChanged(current, key, changes, areaName) ==
    IF areaName # "sync" THEN current
    ELSE IF key \in DOMAIN changes THEN TemplateOrDefault(changes[key], key)
    ELSE current

generateTerraformResource(data) ==
    interpolateTemplate(resourceTemplate, buildTemplateVariables(data))

generateTerraformImport(data) ==
    interpolateTemplate(importTemplate, buildTemplateVariables(data))

(***************************************************************************)
(* Start-up                                                                *)
(***************************************************************************)
vars ==
    <<variant, page, initPc, resourceTemplate, importTemplate, store, getReply,
      listening, notifications, notified, writes, timers, clipboard, scans,
      ops, rTemplate, rVars, rOut, rOut2, rPc, fName, fArgs, fResult, fPc,
      oPc, resourceTextarea, importTextarea, statusDiv, setCalls,
      statusTimers>>

templateVars == <<resourceTemplate, importTemplate, listening, notified>>

storeVars == <<store, getReply, notifications>>

copyVars == <<writes, timers, clipboard>>

NoPage ==
    [href |-> DNS_URL, doc |-> <<>>, tables |-> [t \in Tables |-> NoTable],
     rows |-> [r \in Rows |-> NoRow], queue |-> <<>>, observing |-> FALSE,
     logged |-> FALSE]

RenderOff ==
    /\ rTemplate = <<>>
    /\ rVars = NullData
    /\ rOut = Null
    /\ rOut2 = Null
    /\ rPc = "off"

FunctionsOff ==
    /\ fName = "none"
    /\ fArgs = <<>>
    /\ fResult = Null
    /\ fPc = "off"

\* The options page is not open
OptionsOff ==
    /\ oPc = "off"
    /\ resourceTextarea = <<>>
    /\ importTextarea = <<>>
    /\ statusDiv = [textContent |-> <<>>, className |-> "status"]
    /\ setCalls = <<>>
    /\ statusTimers = 0

Init ==
    /\ variant \in {"rich", "minimal"}
    /\ page \in {[NoPage EXCEPT !.href = u] : u \in Urls}
    /\ initPc = "idle"
    /\ resourceTemplate = DEFAULT_RESOURCE_TEMPLATE
    /\ importTemplate = DEFAULT_IMPORT_TEMPLATE
    /\ store = NoTemplates
    /\ getReply = [status |-> "none", result |-> NoTemplates]
    /\ listening = FALSE
    /\ notifications = <<>>
    /\ notified = [k \in StorageKeys |-> [seen |-> FALSE, newValue |-> Null]]
    /\ writes = <<>>
    /\ timers = <<>>
    /\ clipboard = Null
    /\ scans = 0
    /\ ops = 0
    /\ RenderOff
    /\ FunctionsOff
    /\ OptionsOff

\* The observer is called in a microtask, at the end of the task that queued
\* the records: no other task (an event, a timer, a reply) runs while records
\* are queued.
NoMicrotask == page.queue = <<>>

\* init of the minimal variant: the full scan, then the observer
InitMinimal ==
    /\ NoMicrotask
    /\ variant = "minimal"
    /\ initPc = "idle"
    /\ page' = setupObserver(processTable(page))
    /\ scans' = scans + 1
    /\ initPc' = "watching"
    /\ UNCHANGED <<variant, templateVars, storeVars, copyVars, ops, renderVars,
                   functionVars, optionsVars>>

\* init running the full scan before it loads the templates
InitLoadScansFirst ==
    /\ NoMicrotask
    /\ variant = "rich"
    /\ initPc = "idle"
    /\ getReply' = [status |-> "pending", result |-> NoTemplates]
    /\ initPc' = "loading"
    /\ page' = processTable(page)
    /\ scans' = scans + 1
    /\ UNCHANGED <<variant, templateVars, store, notifications, copyVars, ops,
                   renderVars, functionVars, optionsVars>>

\* init of the rich variant up to its await: loadTemplates asks the store
\* for the two keys
InitLoad ==
    /\ NoMicrotask
    /\ variant = "rich"
    /\ initPc = "idle"
    /\ getReply' = [status |-> "pending", result |-> NoTemplates]
    /\ initPc' = "loading"
    /\ UNCHANGED <<variant, page, templateVars, store, notifications, copyVars,
                   scans, ops, renderVars, functionVars, optionsVars>>

\* The store serves the read with the values it holds, or fails it
StorageGet(ok) ==
    /\ NoMicrotask
    /\ getReply.status = "pending"
    /\ getReply' = IF ok THEN [status |-> "ok", result |-> store]
                   ELSE [status |-> "failed", result |-> NoTemplates]
    /\ UNCHANGED <<variant, page, initPc, templateVars, store, notifications,
                   copyVars, scans, ops, renderVars, functionVars, optionsVars>>

\* loadTemplates after its await, for the slot of key
loadTemplates(key) ==
    IF getReply.status = "ok" THEN TemplateOrDefault(getReply.result[key], key)
    ELSE DefaultTemplates[key]

\* An init that a failed read stops: the templates are set, and nothing of
\* what follows the load is run
InitResumeStopsOnFailure ==
    /\ NoMicrotask
    /\ initPc = "loading"
    /\ getReply.status \in {"ok", "failed"}
    /\ resourceTemplate' = loadTemplates(STORAGE_KEY_RESOURCE)
    /\ importTemplate' = loadTemplates(STORAGE_KEY_IMPORT)
    /\ listening' = (getReply.status = "ok")
    /\ page' = IF getReply.status = "ok" THEN setupObserver(processTable(page))
               ELSE page
    /\ scans' = IF getReply.status = "ok" THEN scans + 1 ELSE scans
    /\ initPc' = IF getReply.status = "ok" THEN "watching" ELSE initPc
    /\ getReply' = [getReply EXCEPT
                        !.status = IF @ = "failed" THEN "caught" ELSE "read"]
    /\ UNCHANGED <<variant, notified, store, notifications, copyVars, ops,
                   renderVars, functionVars, optionsVars>>

\* The rest of init once the read has settled: the templates are set (a
\* failed read is caught and logged: the reply is "caught"), the change
\* listener registered, the full scan run and the observer set up, with no
\* other event in between.
InitResume ==
    /\ NoMicrotask
    /\ initPc = "loading"
    /\ getReply.status \in {"ok", "failed"}
    /\ resourceTemplate' = loadTemplates(STORAGE_KEY_RESOURCE)
    /\ importTemplate' = loadTemplates(STORAGE_KEY_IMPORT)
    /\ listening' = TRUE
    /\ page' = setupObserver(processTable(page))
    /\ scans' = scans + 1
    /\ initPc' = "watching"
    /\ getReply' = [getReply EXCEPT
                        !.status = IF @ = "failed" THEN "caught" ELSE "read"]
    /\ UNCHANGED <<variant, notified, store, notifications, copyVars, ops,
                   renderVars, functionVars, optionsVars>>

(***************************************************************************)
(* The store's other clients and the change events                         *)
(***************************************************************************)
\* The store takes the values of to (Null removes a key) and tells the
\* registered listener which keys changed, and their new values.  Only the
\* rich variant's extension has the store.
StoreChange(to) ==
    LET changed == {k \in StorageKeys : store[k] # to[k]}
    IN /\ NoMicrotask
       /\ variant = "rich"
       /\ ops < MaxOps
       /\ changed # {}
       /\ store' = to
       /\ ops' = ops + 1
       /\ notifications' =
              IF listening
              THEN Append(notifications,
                          [areaName |-> "sync",
                           changes |-> [k \in changed |-> to[k]]])
              ELSE notifications
       /\ UNCHANGED <<variant, page, initPc, templateVars, getReply, copyVars,
                      scans, renderVars, functionVars, optionsVars>>

\* The options page saves or resets the templates
ExtSave == \E to \in Saves : StoreChange(to)

\* The stored templates are removed
ExtClear == StoreChange(NoTemplates)

\* Another storage area of the extension changes a key of the same name
ExtLocalChange ==
    /\ NoMicrotask
    /\ ops < MaxOps
    /\ listening
    /\ ops' = ops + 1
    /\ notifications' =
           Append(notifications,
                  [areaName |-> "local",
                   changes |-> [k \in {STORAGE_KEY_RESOURCE} |-> CUSTOM_IMPORT]])
    /\ UNCHANGED <<variant, page, initPc, templateVars, store, getReply,
                   copyVars, scans, renderVars, functionVars, optionsVars>>

\* The oldest change event reaches the listener
DeliverChange ==
    /\ NoMicrotask
    /\ notifications # <<>>
    /\ LET n == Head(notifications)
       IN /\ resourceTemplate' = onChanged(resourceTemplate, STORAGE_KEY_RESOURCE,
                                           n.changes, n.areaName)
          /\ importTemplate' = onChanged(importTemplate, STORAGE_KEY_IMPORT,
                                         n.changes, n.areaName)
          /\ notified' = [k \in StorageKeys |->
                             IF n.areaName = "sync" /\ k \in DOMAIN n.changes
                             THEN [seen |-> TRUE, newValue |-> n.changes[k]]
                             ELSE notified[k]]
    /\ notifications' = Tail(notifications)
    /\ UNCHANGED <<variant, page, initPc, listening, store, getReply, copyVars,
                   scans, ops, renderVars, functionVars, optionsVars>>

(***************************************************************************)
(* The host page                                                           *)
(***************************************************************************)
\* The host page may change the document: while the page may have another
\* input, and while the observer's queue has room for the record of the change.
HostMay == ops < MaxOps /\ (page.observing => Len(page.queue) < MaxBatch)

HostDoes(p) ==
    /\ page' = p
    /\ ops' = ops + 1
    /\ UNCHANGED <<variant, initPc, templateVars, storeVars, copyVars, scans,
                   renderVars, functionVars, optionsVars>>

\* doc with table t put first or last
WithTable(doc, t, first) == IF first THEN <<t>> \o doc ELSE Append(doc, t)

\* doc without table t
WithoutTable(doc, t) == SelectSeq(doc, LAMBDA x : x # t)

\* The host page renders a new table element (tables are numbered in the
\* order the host creates them) and puts it in the document.
HostAddTable(t, shape, first) ==
    /\ HostMay
    /\ ~page.tables[t].created
    /\ \A u \in 1..(t - 1) : page.tables[u].created
    /\ first => page.doc # <<>>
    /\ HostDoes(Emit([page EXCEPT
                         !.tables[t] = [created |-> TRUE, thead |-> shape.thead,
                                        headerRow |-> shape.headerRow,
                                        ths |-> shape.ths, marked |-> FALSE,
                                        skipped |-> FALSE],
                         !.doc = WithTable(page.doc, t, first)],
                     TRUE, Added(Node("table", t))))

\* The host page removes table t from the document, for good
HostRemoveTable(t) ==
    /\ HostMay
    /\ InDocument(page, t)
    /\ HostDoes(Emit([page EXCEPT !.doc = WithoutTable(page.doc, t)],
                     TRUE, Removed(Node("table", t))))

\* The thead of table t gains its next part: the thead itself, its row, the
\* name header cell and the cell after it.
HostGrowHead(t) ==
    LET table == page.tables[t]
    IN /\ HostMay
       /\ table.created
       /\ table.ths \in {<<>>, <<"type">>}
       /\ HostDoes(Emit([page EXCEPT !.tables[t] =
                            IF ~table.thead THEN [table EXCEPT !.thead = TRUE]
                            ELSE IF ~table.headerRow
                            THEN [table EXCEPT !.headerRow = TRUE,
                                               !.ths = <<"type">>]
                            ELSE [table EXCEPT
                                     !.ths = <<"type", "name", "content">>]],
                        InDocument(page, t), Added(Node("other", 0))))

\* The host page renders a new row element (rows are numbered in the order
\* the host creates them) in table t
HostAddRow(r, t, shape) ==
    /\ HostMay
    /\ page.rows[r].cells = <<>>
    /\ \A q \in 1..(r - 1) : page.rows[q].cells # <<>>
    /\ page.tables[t].created
    /\ HostDoes(Emit([page EXCEPT !.rows[r] =
                         [NoRow EXCEPT !.parent = t,
                                       !.cells = SubSeq(HostCells(r), 1, shape.n),
                                       !.button = shape.button,
                                       !.ariaControls = shape.ariaControls]],
                     InDocument(page, t), Added(Node("row", r))))

\* The host page removes row r from its table, for good
HostRemoveRow(r) ==
    /\ HostMay
    /\ page.rows[r].parent # 0
    /\ HostDoes(Emit([page EXCEPT !.rows[r].parent = 0],
                     RowInDocument(page, r), Removed(Node("row", r))))

\* How many of the host page's own cells row r holds
HostCellCount(row) == Len(SelectSeq(row.cells, LAMBDA c : ~c.own))

\* The host page renders the next cell of row r
HostAppendCell(r) ==
    LET row == page.rows[r]
    IN /\ HostMay
       /\ row.cells # <<>>
       /\ HostCellCount(row) < Len(HostCells(r))
       /\ HostDoes(Emit([page EXCEPT !.rows[r].cells =
                            Append(@, HostCells(r)[HostCellCount(row) + 1])],
                        RowInDocument(page, r), Added(Node("other", 0))))

\* The host page renders the edit control of row r, or gives the control its
\* aria-controls of the right shape (an attribute change: no record)
HostSetEdit(r) ==
    LET row == page.rows[r]
    IN /\ HostMay
       /\ row.cells # <<>>
       /\ ~row.button \/ row.ariaControls # GoodControls(r)
       /\ HostDoes(Emit([page EXCEPT !.rows[r].button = TRUE,
                                     !.rows[r].ariaControls = GoodControls(r)],
                        RowInDocument(page, r) /\ ~row.button,
                        Added(Node("other", 0))))

\* The host page changes the address without loading a new document
HostNavigate(u) ==
    /\ ops < MaxOps
    /\ u # page.href
    /\ HostDoes([page EXCEPT !.href = u])

\* The observer is called with the queued records
ObserverCallback ==
    /\ initPc = "watching"
    /\ page.queue # <<>>
    /\ page' = observerCallback(page)
    /\ UNCHANGED <<variant, initPc, templateVars, storeVars, copyVars, scans,
                   ops, renderVars, functionVars, optionsVars>>

(***************************************************************************)
(* Copy actions                                                            *)
(***************************************************************************)
\* The elements of a row's identifier cell that copy on a click
CopyElements == IF variant = "rich" THEN {"id", "resource", "import"} ELSE {"id"}

\* What the click listener of element e hands to the clipboard
CopyText(data, e) ==
    CASE e = "id" -> data.recordId
      [] e = "resource" -> generateTerraformResource(data)
      [] e = "import" -> generateTerraformImport(data)

\* The template in use when element e is clicked (none for the identifier)
TemplateInUse(e) ==
    CASE e = "id" -> Null
      [] e = "resource" -> resourceTemplate
      [] e = "import" -> importTemplate

\* A listener that extracts the record again at the click, from the row's
\* cells of the host page, its edit control and the address as they are then
ClickReadsPage(r, e) ==
    LET row == page.rows[r]
        hostRow == [row EXCEPT !.cells = SelectSeq(row.cells, LAMBDA c : ~c.own)]
        now == RecordDataFor(page, hostRow, extractRecordId(row.ariaControls))
    IN /\ NoMicrotask
       /\ ops < MaxOps
       /\ row.marked
       /\ RowInDocument(page, r)
       /\ e \in CopyElements
       /\ writes' = Append(writes, [row |-> r, elem |-> e,
                                    text |-> CopyText(now, e),
                                    template |-> TemplateInUse(e)])
       /\ ops' = ops + 1
       /\ UNCHANGED <<variant, page, initPc, templateVars, storeVars, timers,
                      clipboard, scans, renderVars, functionVars, optionsVars>>

\* A click on element e of row r's identifier cell: the listener renders the
\* text and starts the clipboard write
Click(r, e) ==
    /\ NoMicrotask
    /\ ops < MaxOps
    /\ page.rows[r].marked
    /\ RowInDocument(page, r)
    /\ e \in CopyElements
    /\ writes' = Append(writes, [row |-> r, elem |-> e,
                                 text |-> CopyText(page.rows[r].data, e),
                                 template |-> TemplateInUse(e)])
    /\ ops' = ops + 1
    /\ UNCHANGED <<variant, page, initPc, templateVars, storeVars, timers,
                   clipboard, scans, renderVars, functionVars, optionsVars>>

FeedbackText(e) ==
    CASE e = "id" -> COPIED_TEXT
      [] e = "resource" -> RESOURCE_FEEDBACK
      [] e = "import" -> IMPORT_FEEDBACK

\* Setting textContent replaces the element's text node
TextReplaced == [addedNodes |-> <<Node("text", 0)>>, removedNodes |-> <<Node("text", 0)>>]

\* What element e of row r shows where feedback is put: the text of the
\* identifier, the title of a button
Shown(p, r, e) ==
    IF e = "id" THEN p.rows[r].idText.text
    ELSE OrElse(p.rows[r].buttons[e].title, <<>>)

\* Element e of row r shows text, with or without its copied class
Show(p, r, e, text, copied) ==
    IF e = "id"
    THEN Emit([p EXCEPT !.rows[r].idText = [text |-> text, copied |-> copied]],
              RowInDocument(p, r), TextReplaced)
    ELSE [p EXCEPT !.rows[r].buttons[e] = [title |-> text, copied |-> copied]]

Without(seq, i) == SubSeq(seq, 1, i - 1) \o SubSeq(seq, i + 1, Len(seq))

\* The i-th pending clipboard write settles, and the listener shows the
\* feedback and starts the timer whether the write succeeded or not
ClipboardSettleFeedbackAnyway(i, ok) ==
    /\ NoMicrotask
    /\ i \in 1..Len(writes)
    /\ writes' = Without(writes, i)
    /\ LET w == writes[i]
       IN /\ clipboard' = IF ok THEN w.text ELSE clipboard
          /\ page' = Show(page, w.row, w.elem, FeedbackText(w.elem), TRUE)
          /\ timers' = Append(timers, [row |-> w.row, elem |-> w.elem,
                                       original |-> Shown(page, w.row, w.elem)])
    /\ UNCHANGED <<variant, initPc, templateVars, storeVars, scans, ops,
                   renderVars, functionVars, optionsVars>>

\* The i-th pending clipboard write settles.  After a success the listener
\* resumes: it keeps what the element shows, shows the feedback and starts
\* the timer.  A failure is caught and logged with console.error (logged).
ClipboardSettle(i, ok) ==
    /\ NoMicrotask
    /\ i \in 1..Len(writes)
    /\ writes' = Without(writes, i)
    /\ LET w == writes[i]
       IN IF ok
          THEN /\ clipboard' = w.text
               /\ page' = Show(page, w.row, w.elem, FeedbackText(w.elem), TRUE)
               /\ timers' = Append(timers, [row |-> w.row, elem |-> w.elem,
                                            original |-> Shown(page, w.row, w.elem)])
          ELSE /\ page' = [page EXCEPT !.logged = TRUE]
               /\ UNCHANGED <<clipboard, timers>>
    /\ UNCHANGED <<variant, initPc, templateVars, storeVars, scans, ops,
                   renderVars, functionVars, optionsVars>>

\* The oldest feedback timer fires (all timers run 1500 ms)
TimerFire ==
    /\ NoMicrotask
    /\ timers # <<>>
    /\ LET t == Head(timers)
       IN page' = Show(page, t.row, t.elem, t.original, FALSE)
    /\ timers' = Tail(timers)
    /\ UNCHANGED <<variant, initPc, templateVars, storeVars, writes, clipboard,
                   scans, ops, renderVars, functionVars, optionsVars>>

Host ==
    \/ \E t \in Tables, shape \in HeadShapes, first \in BOOLEAN :
           HostAddTable(t, shape, first)
    \/ \E t \in Tables : HostRemoveTable(t)
    \/ \E t \in Tables : HostGrowHead(t)
    \/ \E r \in Rows, t \in Tables : \E shape \in RowShapes(r) : HostAddRow(r, t, shape)
    \/ \E r \in Rows : HostRemoveRow(r)
    \/ \E r \in Rows : HostAppendCell(r)
    \/ \E r \in Rows : HostSetEdit(r)
    \/ \E u \in Urls : HostNavigate(u)

Next ==
    \/ InitMinimal
    \/ InitLoad
    \/ \E ok \in BOOLEAN : StorageGet(ok)
    \/ InitResume
    \/ ExtSave
    \/ ExtClear
    \/ ExtLocalChange
    \/ DeliverChange
    \/ Host
    \/ ObserverCallback
    \/ \E r \in Rows, e \in {"id", "resource", "import"} : Click(r, e)
    \/ \E i \in 1..MaxOps, ok \in BOOLEAN : ClipboardSettle(i, ok)
    \/ TimerFire

Spec == Init /\ [][Next]_vars

(***************************************************************************)
(* Properties of the scanner                                               *)
(***************************************************************************)
\* How many identifier cells a row holds
OwnCells(row) == Len(SelectSeq(row.cells, LAMBDA c : c.own))

\* How many Resource ID header cells a head holds
ResourceIdHeaders(ths) == Len(SelectSeq(ths, LAMBDA h : h = "resource-id"))

\* Row r cannot be augmented as page p stands: the edit control is missing,
\* its aria-controls is not 32 hexadecimal characters and -dns-edit-row, the
\* row holds fewer cells than the variant needs or (rich variant) the address
\* gives no zone name.
RowFails(p, r) ==
    LET row == p.rows[r]
    IN \/ ~row.button
       \/ row.ariaControls = Null
       \/ MatchIdRegex(row.ariaControls) = Null
       \/ Len(row.cells) < MinCells
       \/ variant = "rich" /\ getZoneNameFromUrl(p.href) = Null

\* C1: Row guard: however often processRow is invoked on a row, the row holds
\* exactly one identifier cell once it carries the marker (and none before),
\* and an invocation on a row that carries the marker extracts nothing and
\* changes nothing; a second invocation right after a first changes nothing.
C1_RowGuard ==
    \A r \in Rows :
        LET row == page.rows[r]
            once == processRow(page, r)
            twice == processRow(once, r)
        IN /\ OwnCells(row) = IF row.marked THEN 1 ELSE 0
           /\ row.marked => once = [page EXCEPT !.rows[r].skipped = TRUE]
           /\ OwnCells(twice.rows[r]) = OwnCells(once.rows[r])
           /\ OwnCells(twice.rows[r]) <= 1
           /\ twice.rows[r].data = once.rows[r].data

\* A row that carries the marker has been given to processRow again and holds
\* one identifier cell
C1_ProcessedTwice ==
    \E r \in Rows :
        /\ page.rows[r].marked
        /\ page.rows[r].skipped
        /\ OwnCells(page.rows[r]) = 1

\* C2: Header guard: in every state each table head holds at most one
\* Resource ID header cell, and two full-table scans in a row leave exactly
\* one in the head of the document's first table when that head has its name
\* header cell (and none otherwise).
C2_HeaderGuard ==
    LET twice == processTable(processTable(page))
    IN /\ \A t \in Tables :
              /\ ResourceIdHeaders(page.tables[t].ths) <= 1
              /\ ResourceIdHeaders(twice.tables[t].ths) <= 1
       /\ page.doc # <<>> =>
              LET head == page.tables[page.doc[1]]
              IN ResourceIdHeaders(twice.tables[page.doc[1]].ths) =
                     IF head.thead /\ head.headerRow /\ NameHeader(head.ths) # 0
                     THEN 1 ELSE ResourceIdHeaders(head.ths)

\* A head that carries the marker has been given to addHeaderColumn again and
\* holds one Resource ID header cell
C2_HeaderCheckedTwice ==
    \E t \in Tables :
        /\ page.tables[t].marked
        /\ page.tables[t].skipped
        /\ ResourceIdHeaders(page.tables[t].ths) = 1

\* C3: processRow is all-or-nothing: on a row without the marker it either
\* puts one identifier cell right after the name cell and sets the marker,
\* or (edit control missing, attribute not matching, no zone name in the
\* address, too few cells) leaves the row as it was, without cell and
\* without marker.  So a row carries the marker only if the cell after its
\* name cell is an identifier cell.
C3_AllOrNothing ==
    \A r \in Rows :
        LET row == page.rows[r]
            after == processRow(page, r)
        IN /\ row.marked => Len(row.cells) >= 5 /\ row.cells[5].own
           /\ (~row.marked /\ row.cells # <<>>) =>
                  IF RowFails(page, r)
                  THEN after = [page EXCEPT !.rows[r].missed = TRUE]
                  ELSE /\ after.rows[r].marked
                       /\ after.rows[r].cells =
                              SubSeq(row.cells, 1, 4) \o <<IdCell>>
                                  \o SubSeq(row.cells, 5, Len(row.cells))

\* processRow has left one row in the document as it was, for a failed
\* extraction, and has augmented another
C3_BothOutcomes ==
    \E r, q \in Rows :
        /\ page.rows[r].missed
        /\ ~page.rows[r].marked
        /\ RowInDocument(page, r)
        /\ OwnCells(page.rows[r]) = 0
        /\ page.rows[q].marked

\* C4: a row whose extraction failed is retried on the next mutation event:
\* when the observer handles a batch while a row of the document that was
\* given up before can be augmented, the row is augmented.
C4_RetriedOnNextBatch ==
    [][ObserverCallback =>
           \A r \in Rows :
               (/\ RowInDocument(page, r)
                /\ page.rows[r].missed
                /\ ~page.rows[r].marked
                /\ ~RowFails(page, r)) => page'.rows[r].marked]_vars

\* All batches are handled, and a row of the document that was given up
\* before and can be augmented now is without its identifier cell
C4_LeftBehind ==
    /\ initPc = "watching"
    /\ page.queue = <<>>
    /\ \E r \in Rows :
           /\ RowInDocument(page, r)
           /\ page.rows[r].missed
           /\ ~page.rows[r].marked
           /\ ~RowFails(page, r)

(***************************************************************************)
(* Properties of the templates and of the copy actions                     *)
(***************************************************************************)
\* The store key of the template a button renders
KeyOf(e) == IF e = "resource" THEN STORAGE_KEY_RESOURCE ELSE STORAGE_KEY_IMPORT

\* The loaded template of a key
InMemory(k) == IF k = STORAGE_KEY_RESOURCE THEN resourceTemplate ELSE importTemplate

\* The template a stored or notified value stands for: its text, or the
\* built-in default when the value is absent or has no text
EffectiveTemplate(value, k) ==
    IF value = Null \/ value = <<>> THEN DefaultTemplates[k] ELSE value

\* The text a button of row r copies when its template is template
Rendered(template, r) ==
    interpolateTemplate(template, buildTemplateVariables(page.rows[r].data))

\* C8: Template change ordering: a click on a button handled after a change
\* notification for its template has been delivered renders with the
\* template of the last such notification, and a clipboard write that
\* settles puts on the clipboard the text rendered with the template that
\* was current when its click was handled, whatever was delivered since.
C8_ChangeOrdering ==
    [][/\ \A r \in Rows, e \in {"resource", "import"} :
              (Click(r, e) /\ notified[KeyOf(e)].seen) =>
                  writes'[Len(writes')].text =
                      Rendered(EffectiveTemplate(notified[KeyOf(e)].newValue,
                                                 KeyOf(e)), r)
       /\ \A i \in 1..Len(writes) :
              (ClipboardSettle(i, TRUE) /\ writes[i].elem # "id") =>
                  clipboard' = Rendered(writes[i].template, writes[i].row)]_vars

\* A click on the resource button is in flight with the template that was
\* current when it was handled, and a notification delivered since has
\* changed the loaded template
C8_InFlightKeepsTemplate ==
    \E i \in 1..Len(writes) :
        /\ writes[i].elem = "resource"
        /\ notified[STORAGE_KEY_RESOURCE].seen
        /\ writes[i].template # resourceTemplate
        /\ writes[i].text = Rendered(writes[i].template, writes[i].row)
        /\ writes[i].text # Rendered(resourceTemplate, writes[i].row)

\* C9: the renderer reads the latest committed values: at every copy click,
\* with no change notification on its way, each loaded template is the value
\* the store holds for its key, or the built-in default when the store holds
\* none.
C9_LatestCommitted ==
    [][(/\ variant = "rich"
        /\ notifications = <<>>
        /\ \E r \in Rows, e \in CopyElements : Click(r, e)) =>
           \A k \in StorageKeys :
               InMemory(k) = IF store[k] = Null THEN DefaultTemplates[k]
                             ELSE store[k]]_vars

\* A copy click has rendered with the default resource template while the
\* store has held another since before the listener was registered, and no
\* notification is on its way
C9_StaleTemplateUsed ==
    /\ initPc = "watching"
    /\ notifications = <<>>
    /\ ~notified[STORAGE_KEY_RESOURCE].seen
    /\ store[STORAGE_KEY_RESOURCE] = CUSTOM_RESOURCE
    /\ resourceTemplate = DEFAULT_RESOURCE_TEMPLATE
    /\ getReply.status = "read"
    /\ \E i \in 1..Len(writes) :
           /\ writes[i].elem = "resource"
           /\ writes[i].template = DEFAULT_RESOURCE_TEMPLATE

\* C10: copy feedback is transient: once no clipboard write is pending and
\* all feedback timers have fired, every identifier cell shows its record
\* identifier without the copied class and each of its buttons has its
\* first title without the copied class.
C10_FeedbackTransient ==
    (writes = <<>> /\ timers = <<>>) =>
        \A r \in Rows :
            page.rows[r].marked =>
                /\ page.rows[r].idText = [text |-> page.rows[r].data.recordId,
                                          copied |-> FALSE]
                /\ variant = "rich" =>
                       /\ page.rows[r].buttons["resource"] =
                              [title |-> RESOURCE_TITLE, copied |-> FALSE]
                       /\ page.rows[r].buttons["import"] =
                              [title |-> IMPORT_TITLE, copied |-> FALSE]

\* After two clicks on an identifier and the end of both timers, the cell
\* shows the feedback text without the copied class
C10_FeedbackStuck ==
    /\ writes = <<>>
    /\ timers = <<>>
    /\ \E r \in Rows :
           /\ page.rows[r].marked
           /\ page.rows[r].idText = [text |-> COPIED_TEXT, copied |-> FALSE]

\* What a marked row shows when no feedback is up
ShowsNoFeedback(row) ==
    /\ row.idText = [text |-> row.data.recordId, copied |-> FALSE]
    /\ variant = "rich" =>
           /\ row.buttons["resource"] = [title |-> RESOURCE_TITLE, copied |-> FALSE]
           /\ row.buttons["import"] = [title |-> IMPORT_TITLE, copied |-> FALSE]

\* C11: a clipboard failure shows no feedback: when the clipboard write of a
\* copy click fails, the failure is caught and logged, the document stays as
\* it is (no copied text, title or class), no feedback timer is started and
\* the clipboard keeps its text.
C11_FailureShowsNothing ==
    [][\A i \in 1..Len(writes) :
           ClipboardSettle(i, FALSE) =>
               /\ page' = [page EXCEPT !.logged = TRUE]
               /\ timers' = timers
               /\ clipboard' = clipboard
               /\ writes' = Without(writes, i)]_vars

\* A clipboard write has failed, and a later click on the same document has
\* its write pending: nothing was copied, no timer runs, and every row shows
\* what it showed before
C11_FailedThenClickedAgain ==
    /\ page.logged
    /\ clipboard = Null
    /\ timers = <<>>
    /\ Len(writes) = 1
    /\ \A r \in Rows : page.rows[r].marked => ShowsNoFeedback(page.rows[r])
    /\ \E r \in Rows : page.rows[r].marked

(***************************************************************************)
(* Properties of start-up and of the observer                              *)
(***************************************************************************)
\* The rows a batch of records brings in: the rows among its added nodes and
\* the rows inside its added tables
RowsAddedBy(p) ==
    {r \in Rows :
        \E i \in 1..Len(p.queue) :
            \E j \in 1..Len(p.queue[i].addedNodes) :
                LET node == p.queue[i].addedNodes[j]
                IN \/ node = Node("row", r)
                   \/ node.kind = "table" /\ p.rows[r].parent = node.id}

HasNameHeader(table) ==
    table.thead /\ table.headerRow /\ NameHeader(table.ths) # 0

\* Table t has come in place of an augmented table: it is the one table of
\* the document, and an augmented table has left the document
Replaces(p, t) ==
    /\ p.doc = <<t>>
    /\ \E u \in Tables \ {t} : p.tables[u].marked /\ ~InDocument(p, u)

\* C13: a full table replacement is treated as unprocessed: when the batch
\* that added a new table in place of an augmented one is handled, the new
\* head (with its name header cell) holds exactly one Resource ID header cell
\* and each row of the new table that can be augmented holds exactly one
\* identifier cell, however many tables were augmented before.
C13_ReplacementAugmented ==
    [][ObserverCallback =>
           \A t \in Tables :
               (/\ \E i \in 1..Len(page.queue) :
                       Node("table", t) \in
                           {page.queue[i].addedNodes[j] :
                                j \in 1..Len(page.queue[i].addedNodes)}
                /\ Replaces(page, t)
                /\ HasNameHeader(page.tables[t]))
                   => /\ page'.tables[t].marked
                      /\ ResourceIdHeaders(page'.tables[t].ths) = 1
                      /\ \A r \in Rows :
                             (page.rows[r].parent = t /\ ~RowFails(page, r))
                                 => /\ page'.rows[r].marked
                                    /\ OwnCells(page'.rows[r]) = 1]_vars

\* An augmented table has left the document, and the table that came in its
\* place has its Resource ID header cell and a row with its identifier cell
C13_ReplacementSeen ==
    \E t \in Tables :
        /\ Replaces(page, t)
        /\ page.queue = <<>>
        /\ page.tables[t].marked
        /\ ResourceIdHeaders(page.tables[t].ths) = 1
        /\ \E r \in Rows :
               /\ page.rows[r].parent = t
               /\ page.rows[r].marked
               /\ OwnCells(page.rows[r]) = 1

\* C14: start-up ordering: the script enters Watching once, with the one
\* full scan, and stays there; in the rich variant the scan runs only when
\* the template load has completed or failed, with the change listener
\* registered; no batch is queued or handled before the scan.
C14_StartupOrdering ==
    /\ [](/\ scans \in {0, 1}
          /\ (initPc = "watching") <=> (scans = 1)
          /\ page.observing <=> (scans = 1)
          /\ page.queue # <<>> => scans = 1
          /\ (variant = "rich" /\ scans = 1) =>
                 listening /\ getReply.status \in {"read", "caught"}
          /\ (variant = "rich" /\ scans = 0) => ~listening)
    /\ [][/\ initPc = "watching" => initPc' = "watching"
          /\ ObserverCallback => scans = 1 /\ scans' = 1
          /\ scans' # scans =>
                 /\ initPc # "watching" /\ initPc' = "watching"
                 /\ variant = "rich" =>
                        /\ initPc = "loading"
                        /\ getReply.status \in {"ok", "failed"}
                        /\ listening']_vars

\* The rich variant watches after its one scan, which found a row to
\* augment, with the templates loaded and the listener registered
C14_WatchingAfterScan ==
    /\ variant = "rich"
    /\ initPc = "watching"
    /\ scans = 1
    /\ listening
    /\ getReply.status = "read"
    /\ ops = 2
    /\ \E r \in Rows : page.rows[r].marked

\* The records of the batch name only removed nodes
OnlyRemovals(p) ==
    /\ p.queue # <<>>
    /\ \A i \in 1..Len(p.queue) : p.queue[i].addedNodes = <<>>

\* C15: augmentation is never undone: in every step a row that carries the
\* marker keeps it, with its one identifier cell after the name cell and the
\* record the cell holds, and a head that carries the marker keeps it with
\* its one Resource ID header cell; the handling of a batch that names only
\* removed nodes changes nothing of the document or of the templates.
C15_NeverUndone ==
    [][/\ \A r \in Rows :
              page.rows[r].marked =>
                  /\ page'.rows[r].marked
                  /\ OwnCells(page'.rows[r]) = 1
                  /\ page'.rows[r].cells[5].own
                  /\ page'.rows[r].data = page.rows[r].data
       /\ \A t \in Tables :
              page.tables[t].marked =>
                  /\ page'.tables[t].marked
                  /\ ResourceIdHeaders(page'.tables[t].ths) = 1
       /\ (ObserverCallback /\ OnlyRemovals(page)) =>
              /\ page' = [page EXCEPT !.queue = <<>>]
              /\ resourceTemplate' = resourceTemplate
              /\ importTemplate' = importTemplate]_vars

\* An augmented row has been removed from its table, the batch that named
\* the removal is handled, and the row still has its marker and its cell
C15_RemovedRowKeepsCell ==
    /\ initPc = "watching"
    /\ page.queue = <<>>
    /\ \E r \in Rows :
           /\ page.rows[r].cells # <<>>
           /\ page.rows[r].parent = 0
           /\ page.rows[r].marked
           /\ OwnCells(page.rows[r]) = 1

(***************************************************************************)
(* Properties of a failed template load                                    *)
(***************************************************************************)
\* C20: a failed template load is not fatal: when the store read at start-up
\* fails, init goes on in one step to register the change listener, run the
\* full scan and start the observer; both loaded templates are the built-in
\* defaults until a change is notified; and a change notified later still
\* sets the templates.
C20_FailedLoadNotFatal ==
    /\ [](getReply.status = "caught" =>
              /\ initPc = "watching"
              /\ listening
              /\ scans = 1
              /\ page.observing
              /\ \A k \in StorageKeys :
                     ~notified[k].seen => InMemory(k) = DefaultTemplates[k])
    /\ [][/\ (getReply.status = "failed" /\ getReply' # getReply) =>
                 /\ getReply'.status = "caught"
                 /\ initPc' = "watching"
                 /\ listening'
                 /\ scans' = scans + 1
                 /\ page'.observing
                 /\ resourceTemplate' = DEFAULT_RESOURCE_TEMPLATE
                 /\ importTemplate' = DEFAULT_IMPORT_TEMPLATE
          /\ (getReply.status = "caught" /\ DeliverChange) =>
                 LET n == Head(notifications)
                 IN \A k \in StorageKeys :
                        InMemory(k)' =
                            IF n.areaName = "sync" /\ k \in DOMAIN n.changes
                            THEN EffectiveTemplate(n.changes[k], k)
                            ELSE InMemory(k)]_vars

\* After a failed load the script watches with a scanned table, and a change
\* notified since then has replaced a default template
C20_ChangeSeenAfterFailedLoad ==
    /\ getReply.status = "caught"
    /\ initPc = "watching"
    /\ listening
    /\ page.observing
    /\ \E r \in Rows : OwnCells(page.rows[r]) = 1
    /\ notified[STORAGE_KEY_RESOURCE].seen
    /\ resourceTemplate = CUSTOM_RESOURCE
    /\ resourceTemplate # DEFAULT_RESOURCE_TEMPLATE

(***************************************************************************)
(* Properties of the rendering pipeline                                    *)
(***************************************************************************)
EXAMPLE_TEMPLATE ==
    <<"{", "{", "t", "y", "p", "e", "}", "}", " ", "r", "e", "c", "o", "r", "d", " ", "{",
     "{", "n", "a", "m", "e", "}", "}", " ", "-", ">", " ", "{", "{", "c", "o", "n", "t",
     "e", "n", "t", "}", "}", " ", "(", "t", "t", "l", "=", "{", "{", "t", "t", "l", "S",
     "e", "c", "o", "n", "d", "s", "}", "}", ")">>

EXAMPLE_RENDERING ==
    <<"A", " ", "r", "e", "c", "o", "r", "d", " ", "w", "w", "w", ".", "e", "x", "a", "m",
     "p", "l", "e", ".", "c", "o", "m", " ", "-", ">", " ", "1", "9", "2", ".", "0", ".",
     "2", ".", "1", " ", "(", "t", "t", "l", "=", "3", "0", "0", ")">>

\* The record of the end-to-end example
IsExampleRecord(d) ==
    /\ d.type = <<"A">>
    /\ d.name = <<"w", "w", "w", ".", "e", "x", "a", "m", "p", "l", "e", ".", "c", "o", "m">>
    /\ d.content = <<"1", "9", "2", ".", "0", ".", "2", ".", "1">>
    /\ d.ttl = <<"5", " ", "m", "i", "n">>

\* The write a click has just started, if the step is a click
ClickedWrite == writes'[Len(writes')]

\* C22: end-to-end rendering composes the pipeline: the text a click on a
\* block button hands to the clipboard is interpolateTemplate of the slot's
\* current template and of variables that copy recordId, zoneName, type,
\* name, content, ttl and proxied from the row's extracted record, with
\* ttlSeconds = parseTtl(ttl) and resourceName =
\* toTerraformResourceName(name, type); the example template on the example
\* record gives "A record www.example.com -> 192.0.2.1 (ttl=300)".
C22_PipelineComposed ==
    [][(Len(writes') = Len(writes) + 1 /\ ClickedWrite.elem # "id") =>
           LET d == page.rows[ClickedWrite.row].data
               template == InMemory(KeyOf(ClickedWrite.elem))
               variables ==
                   [recordId |-> d.recordId, zoneName |-> d.zoneName,
                    type |-> d.type, name |-> d.name, content |-> d.content,
                    ttl |-> d.ttl, proxied |-> d.proxied,
                    ttlSeconds |-> parseTtl(d.ttl),
                    resourceName |-> toTerraformResourceName(d.name, d.type)]
           IN /\ ClickedWrite.text = interpolateTemplate(template, variables)
              /\ (template = EXAMPLE_TEMPLATE /\ IsExampleRecord(d)) =>
                     ClickedWrite.text = EXAMPLE_RENDERING]_vars

\* A click on the resource button of the example record, with the example
\* template loaded, has handed the example's text to the clipboard
C22_ExampleRendered ==
    \E i \in 1..Len(writes) :
        /\ writes[i].elem = "resource"
        /\ writes[i].template = EXAMPLE_TEMPLATE
        /\ IsExampleRecord(page.rows[writes[i].row].data)
        /\ writes[i].text = EXAMPLE_RENDERING

(***************************************************************************)
(* Properties of the observer's own records                                *)
(***************************************************************************)
\* Whether every record of the batch adds nothing but elements that are no
\* table and no row, and text nodes: the records of an inserted cell, of an
\* inserted header cell and of a replaced feedback text are of this kind
AddsNoRowOrTable(mutations) ==
    \A i \in 1..Len(mutations) :
        \A j \in 1..Len(mutations[i].addedNodes) :
            mutations[i].addedNodes[j].kind \in {"other", "text"}

\* C24: self-induced mutations quiesce: what a callback leaves in the queue
\* are records of cells it inserted itself; a callback on a batch that adds
\* no row and no table (every batch of the script's own changes) changes
\* nothing but to empty the queue; so from every state two callbacks without
\* another input end with an empty queue, the second without any change.
C24_SelfInducedQuiesce ==
    /\ [](LET p1 == observerCallback(page)
              p2 == observerCallback(p1)
          IN /\ AddsNoRowOrTable(p1.queue)
             /\ p2 = [p1 EXCEPT !.queue = <<>>])
    /\ [][ObserverCallback =>
              /\ \A i \in 1..Len(page'.queue) :
                     page'.queue[i] = Added(Node("other", 0))
              /\ AddsNoRowOrTable(page.queue) =>
                     page' = [page EXCEPT !.queue = <<>>]]_vars

\* The observer has handled the record of the feedback text of an identifier
\* that is in the observed document, and of the cells inserted before: the
\* feedback is still shown, the row holds one identifier cell, and the queue
\* is empty
C24_OwnRecordsHandled ==
    /\ page.observing
    /\ page.queue = <<>>
    /\ \E r \in Rows :
           /\ RowInDocument(page, r)
           /\ page.rows[r].idText.copied
           /\ OwnCells(page.rows[r]) = 1

(***************************************************************************)
(* Properties of the record a row's listeners keep                         *)
(***************************************************************************)
\* The record an extraction from row r would give now: from the cells the
\* host page rendered, the edit control and the address as they are
ExtractedNow(r) ==
    LET row == page.rows[r]
    IN RecordDataFor(page,
                     [row EXCEPT !.cells = SelectSeq(row.cells, LAMBDA c : ~c.own)],
                     extractRecordId(row.ariaControls))

\* C25: copy actions use the record captured at augmentation: the record of
\* a row is what was extracted in the step that augmented it and never
\* changes afterwards, whatever the host page does to the row's cells, its
\* edit control or the address; every click hands over the identifier of
\* that record, or the rendering of that record with the slot's template;
\* two copies of the same element of a row differ only with the template.
C25_CapturedAtAugmentation ==
    /\ [](\A i, j \in 1..Len(writes) :
              (/\ writes[i].row = writes[j].row
               /\ writes[i].elem = writes[j].elem
               /\ writes[i].template = writes[j].template)
                  => writes[i].text = writes[j].text)
    /\ [][/\ \A r \in Rows :
                 /\ (~page.rows[r].marked /\ page'.rows[r].marked) =>
                        page'.rows[r].data = ExtractedNow(r)
                 /\ page.rows[r].marked =>
                        /\ page'.rows[r].marked
                        /\ page'.rows[r].data = page.rows[r].data
          /\ Len(writes') = Len(writes) + 1 =>
                 LET d == page.rows[ClickedWrite.row].data
                 IN /\ page.rows[ClickedWrite.row].marked
                    /\ ClickedWrite.text =
                           IF ClickedWrite.elem = "id" THEN d.recordId
                           ELSE Rendered(InMemory(KeyOf(ClickedWrite.elem)),
                                         ClickedWrite.row)]_vars

\* A block button was clicked after the host page changed the address: an
\* extraction now would give another record than the row's, and the text is
\* the rendering of the row's record
C25_CopiedAfterAddressChange ==
    \E i \in 1..Len(writes) :
        LET r == writes[i].row
        IN /\ variant = "rich"
           /\ page.rows[r].marked
           /\ page.href # DNS_URL
           /\ ExtractedNow(r) # page.rows[r].data
           /\ writes[i].elem = "resource"
           /\ writes[i].text =
                  interpolateTemplate(writes[i].template,
                                      buildTemplateVariables(page.rows[r].data))

(***************************************************************************)
(* Rendering on its own: a template and a set of variables are drawn from  *)
(* bounded sets, rendered, and the result rendered again.                  *)
(***************************************************************************)
MaxTplPieces == 2

N_unknown == <<"u", "n", "k", "n", "o", "w", "n">>

\* The nine placeholder names, in the order interpolateTemplate replaces them.
PlaceholderNames ==
    <<N_recordId, N_zoneName, N_type, N_name, N_content, N_ttl, N_ttlSeconds,
      N_proxied, N_resourceName>>

TplPieces ==
    {Placeholder(PlaceholderNames[k]) : k \in 1..Len(PlaceholderNames)}
        \cup {Placeholder(N_unknown), <<"x">>}

RenderTemplates ==
    {Concat(ps) : ps \in UNION {[1..n -> TplPieces] : n \in 0..MaxTplPieces}}

SampleRecordId == [i \in 1..32 |-> IF i % 2 = 1 THEN "7" ELSE "d"]

NameValues == {<<"w", "w", "w", ".", "e", "x", "a", "m", "p", "l", "e", ".", "c", "o", "m">>, Placeholder(N_content)}

ContentValues ==
    {<<"1", "9", "2", ".", "0", ".", "2", ".", "1">>, <<>>, Placeholder(N_name), Placeholder(N_ttl), <<"$", "&">>,
     <<"a", "$", "$", "b">>}

RenderVariables ==
    [recordId : {SampleRecordId}, zoneName : {<<"e", "x", "a", "m", "p", "l", "e", ".", "c", "o", "m">>}, type : {<<"A">>},
     name : NameValues, content : ContentValues, ttl : {<<"5", " ", "m", "i", "n">>},
     ttlSeconds : {1, 300}, proxied : BOOLEAN, resourceName : {<<"a", "_", "w", "w", "w", "_", "e", "x", "a", "m", "p", "l", "e", "_", "c", "o", "m">>}]

\* The content script stays as it is before init
MainIdle ==
    /\ variant = "rich"
    /\ page = NoPage
    /\ initPc = "idle"
    /\ resourceTemplate = DEFAULT_RESOURCE_TEMPLATE
    /\ importTemplate = DEFAULT_IMPORT_TEMPLATE
    /\ store = NoTemplates
    /\ getReply = [status |-> "none", result |-> NoTemplates]
    /\ listening = FALSE
    /\ notifications = <<>>
    /\ notified = [k \in StorageKeys |-> [seen |-> FALSE, newValue |-> Null]]
    /\ writes = <<>>
    /\ timers = <<>>
    /\ clipboard = Null
    /\ scans = 0
    /\ ops = 0

mainVars ==
    <<variant, page, initPc, resourceTemplate, importTemplate, store, getReply,
      listening, notifications, notified, writes, timers, clipboard, scans,
      ops>>

RenderInit ==
    /\ MainIdle
    /\ FunctionsOff
    /\ OptionsOff
    /\ rTemplate \in RenderTemplates
    /\ rVars \in RenderVariables
    /\ rOut = Null
    /\ rOut2 = Null
    /\ rPc = "input"

Render ==
    /\ rPc = "input"
    /\ rOut' = interpolateTemplate(rTemplate, rVars)
    /\ rPc' = "rendered"
    /\ UNCHANGED <<rTemplate, rVars, rOut2, mainVars, functionVars, optionsVars>>

RenderAgain ==
    /\ rPc = "rendered"
    /\ rOut2' = interpolateTemplate(rOut, rVars)
    /\ rPc' = "rerendered"
    /\ UNCHANGED <<rTemplate, rVars, rOut, mainVars, functionVars, optionsVars>>

RenderNext == Render \/ RenderAgain

SpecRender == RenderInit /\ [][RenderNext]_vars

(***************************************************************************)
(* Properties of the renderer                                              *)
(***************************************************************************)
\* The string form of the value of the k-th placeholder name
ValueText(v, k) ==
    CASE k = 1 -> v.recordId
      [] k = 2 -> v.zoneName
      [] k = 3 -> v.type
      [] k = 4 -> v.name
      [] k = 5 -> v.content
      [] k = 6 -> v.ttl
      [] k = 7 -> NumberToString(v.ttlSeconds)
      [] k = 8 -> BooleanToString(v.proxied)
      [] OTHER -> v.resourceName

\* The placeholder names whose token stands in str at position i
TokensAt(str, i) ==
    {k \in 1..Len(PlaceholderNames) :
        LET token == Placeholder(PlaceholderNames[k])
        IN /\ i + Len(token) - 1 <= Len(str)
           /\ SubSeq(str, i, i + Len(token) - 1) = token}

RECURSIVE SubstituteFrom(_, _, _)
\* One simultaneous substitution of the nine tokens in str from position i on:
\* each token of str is replaced by the text of its value, all other text is
\* copied, and no replacement text is read again.
SubstituteFrom(str, v, i) ==
    IF i > Len(str) THEN <<>>
    ELSE LET hits == TokensAt(str, i)
         IN IF hits = {} THEN <<str[i]>> \o SubstituteFrom(str, v, i + 1)
            ELSE LET k == CHOOSE h \in hits : TRUE
                 IN ValueText(v, k)
                        \o SubstituteFrom(str, v,
                               i + Len(Placeholder(PlaceholderNames[k])))

SubstituteOnce(str, v) == SubstituteFrom(str, v, 1)

\* C5: interpolateTemplate never reads replacement text again: for every
\* template and every variable set, values that hold a placeholder token
\* included, the output is the single simultaneous substitution of the nine
\* tokens in the template.
C5_NoRescan ==
    rPc # "input" => rOut = SubstituteOnce(rTemplate, rVars)

\* The template {{content}} with the content {{ttl}} has been rendered, and the
\* output is the ttl text
C5_RescanSeen ==
    /\ rPc = "rendered"
    /\ rTemplate = Placeholder(N_content)
    /\ rVars.content = Placeholder(N_ttl)
    /\ rOut = rVars.ttl

\* C6: rendering is idempotent on its output: rendering the output again
\* with the same variables gives the output back.
C6_Idempotent ==
    rPc = "rerendered" => rOut2 = rOut

\* The template {{content}} with the content {{name}} has been rendered twice:
\* the first output holds the literal {{name}}, the second the name
C6_SecondRenderExpands ==
    /\ rPc = "rerendered"
    /\ rTemplate = Placeholder(N_content)
    /\ rVars.content = Placeholder(N_name)
    /\ rOut = Placeholder(N_name)
    /\ rOut2 = rVars.name
    /\ rOut2 # rOut

\* No text value of v holds a pair of braces
NoPlaceholderSyntax(v) ==
    \A k \in 1..Len(PlaceholderNames) :
        /\ ~Includes(ValueText(v, k), <<"{", "{">>)
        /\ ~Includes(ValueText(v, k), <<"}", "}">>)

\* C7: substitution is global and touches nothing else: when no value holds
\* placeholder syntax, every token of the template is replaced by the string
\* form of its value and all other text, unknown placeholders included, is in
\* the output unchanged and in the same order.
C7_GlobalAndNothingElse ==
    (rPc # "input" /\ NoPlaceholderSyntax(rVars))
        => rOut = SubstituteOnce(rTemplate, rVars)

\* The template {{content}} with the content $& has been rendered, and the
\* output is the token {{content}} itself
C7_DollarPatternSeen ==
    /\ rPc = "rendered"
    /\ NoPlaceholderSyntax(rVars)
    /\ rTemplate = Placeholder(N_content)
    /\ rVars.content = <<"$", "&">>
    /\ rOut = Placeholder(N_content)

(***************************************************************************)
(* Functions on their own: parseTtl, toTerraformResourceName and           *)
(* extractRecordId are called once on arguments drawn from bounded sets.   *)
(***************************************************************************)
MaxTtlPieces == 3

MaxNamePieces == 3

\* Pieces of the texts a TTL cell can show
TtlPieces ==
    {<<"A", "u", "t", "o">>, <<"A", "U", "T", "O">>, <<"0">>, <<"1">>,
     <<"2">>, <<"4">>, <<"5">>, <<" ">>, <<"m", "i", "n">>,
     <<"h", "o", "u", "r", "s">>, <<"d", "a", "y">>, <<"D", "a", "y">>,
     <<"s", "e", "c">>,
     <<"g", "a", "r", "b", "a", "g", "e">>, <<"x">>}

TtlStrings ==
    {Concat(ps) : ps \in UNION {[1..n -> TtlPieces] : n \in 0..MaxTtlPieces}}

\* Pieces of record names
NamePieces ==
    {<<"w", "w", "w">>, <<"e", "x", "a", "m", "p", "l", "e">>,
     <<"c", "o", "m">>, <<".">>, <<"*">>, <<"_">>, <<"-">>, <<"1">>,
     <<"M", "a", "i", "l">>}

\* The names of the documented examples
ExampleNames ==
    {<<"w", "w", "w", ".", "e", "x", "a", "m", "p", "l", "e", ".", "c", "o", "m">>,
     <<"*", ".", "e", "x", "a", "m", "p", "l", "e", ".", "c", "o", "m">>}

NameStrings ==
    {Concat(ps) : ps \in UNION {[1..n -> NamePieces] : n \in 0..MaxNamePieces}}
        \cup ExampleNames

TypeStrings ==
    {<<"A">>, <<"C", "N", "A", "M", "E">>, <<>>, <<"6", "t", "o", "4">>}

\* aria-controls values: text before, an identifier or something like one,
\* a suffix, text after
ControlsBefore == {<<>>, <<"x">>, <<" ">>}

ControlsIds ==
    {RecordIdOf(1), RecordIdOf(2),
     [i \in 1..32 |-> IF i = 1 THEN "A" ELSE "d"],
     [i \in 1..32 |-> IF i = 32 THEN "g" ELSE "d"],
     [i \in 1..31 |-> "d"],
     [i \in 1..33 |-> "d"]}

ControlsSuffixes ==
    {ID_SUFFIX,
     <<"-", "d", "n", "s", "-", "v", "i", "e", "w", "-", "r", "o", "w">>,
     <<"-", "D", "N", "S", "-", "E", "D", "I", "T", "-", "R", "O", "W">>,
     <<>>}

ControlsAfter == {<<>>, <<"\n">>, <<"x">>}

ControlsValues ==
    {Null} \cup {b \o id \o s \o a :
                    b \in ControlsBefore, id \in ControlsIds,
                    s \in ControlsSuffixes, a \in ControlsAfter}

FunctionsInit ==
    /\ MainIdle
    /\ RenderOff
    /\ \/ fName = "parseTtl" /\ fArgs \in {<<s>> : s \in TtlStrings}
       \/ /\ fName = "toTerraformResourceName"
          /\ fArgs \in {<<n, t>> : n \in NameStrings, t \in TypeStrings}
       \/ fName = "extractRecordId" /\ fArgs \in {<<c>> : c \in ControlsValues}
    /\ fResult = Null
    /\ fPc = "input"
    /\ OptionsOff

CallParseTtl ==
    /\ fPc = "input"
    /\ fName = "parseTtl"
    /\ fResult' = parseTtl(fArgs[1])
    /\ fPc' = "returned"
    /\ UNCHANGED <<fName, fArgs, mainVars, renderVars, optionsVars>>

CallToTerraformResourceName ==
    /\ fPc = "input"
    /\ fName = "toTerraformResourceName"
    /\ fResult' = toTerraformResourceName(fArgs[1], fArgs[2])
    /\ fPc' = "returned"
    /\ UNCHANGED <<fName, fArgs, mainVars, renderVars, optionsVars>>

CallExtractRecordId ==
    /\ fPc = "input"
    /\ fName = "extractRecordId"
    /\ fResult' = extractRecordId(fArgs[1])
    /\ fPc' = "returned"
    /\ UNCHANGED <<fName, fArgs, mainVars, renderVars, optionsVars>>

FunctionsNext ==
    \/ CallParseTtl
    \/ CallToTerraformResourceName
    \/ CallExtractRecordId

SpecFunctions == FunctionsInit /\ [][FunctionsNext]_vars

\* The function called name has returned
Returned(name) == fPc = "returned" /\ fName = name

\* C16: ttlSeconds is an integer of at least 1 for every TTL text: parseTtl
\* never returns 0 or a negative number.
C16_TtlAtLeastOne ==
    Returned("parseTtl") => fResult \in Nat /\ fResult >= 1

\* parseTtl has returned 0 for the text "0 min"
C16_ZeroReturned ==
    /\ Returned("parseTtl")
    /\ fArgs = <<<<"0", " ", "m", "i", "n">>>>
    /\ fResult = 0

RECURSIVE DropWhile(_, _)
\* s without its longest prefix of characters from the set chars
DropWhile(s, chars) ==
    IF s # <<>> /\ Head(s) \in chars THEN DropWhile(Tail(s), chars) ELSE s

\* The longest prefix of s made of characters from the set chars
TakeWhile(s, chars) == SubSeq(s, 1, Len(s) - Len(DropWhile(s, chars)))

DigitChars == {Digits[i] : i \in 1..Len(Digits)}

StartsWith(s, word) ==
    Len(s) >= Len(word) /\ ToLowerCase(SubSeq(s, 1, Len(word))) = word

\* The stated rules for ttlSeconds, read on their own: "auto" in any case
\* gives 1; an integer n at the start of the text (white space before it is
\* let through), followed by an optional unit word, gives n times the
\* unit's factor; a text that does not start with an integer gives 1.
StatedTtlSeconds(s) ==
    LET text == DropWhile(s, WhiteSpace)
        digits == TakeWhile(text, DigitChars)
        unit == DropWhile(DropWhile(text, DigitChars), WhiteSpace)
        n == ParseInt(digits)
    IN IF ToLowerCase(s) = <<"a", "u", "t", "o">> THEN 1
       ELSE IF digits = <<>> THEN 1
       ELSE IF StartsWith(unit, <<"m", "i", "n">>) THEN n * 60
       ELSE IF StartsWith(unit, <<"h", "o", "u", "r">>) THEN n * 3600
       ELSE IF StartsWith(unit, <<"d", "a", "y">>) THEN n * 86400
       ELSE n

\* C17: parseTtl follows the stated rules for every input string: "auto"
\* ignoring case gives 1; a leading integer n with an optional unit word
\* gives n*60 for min, n*3600 for hour, n*86400 for day and n for sec or no
\* unit; a string in which no leading integer is found gives 1.
C17_FollowsStatedRules ==
    Returned("parseTtl") => fResult = StatedTtlSeconds(fArgs[1])

\* parseTtl has returned 300 for the text "x5min", which starts with no
\* integer
C17_DigitsAfterText ==
    /\ Returned("parseTtl")
    /\ fArgs = <<<<"x", "5", "m", "i", "n">>>>
    /\ fResult = 300
    /\ StatedTtlSeconds(fArgs[1]) = 1

\* Where the text starts with an integer (after white space) or holds no
\* digit at all, parseTtl gives what the rules state.
C17_AgreesOnLeadingIntegers ==
    /\ Returned("parseTtl")
    /\ LET text == DropWhile(fArgs[1], WhiteSpace)
       IN \/ text # <<>> /\ Head(text) \in DigitChars
          \/ \A i \in 1..Len(text) : text[i] \notin DigitChars
    => fResult = StatedTtlSeconds(fArgs[1])

\* The examples: Auto 1, "5 min" 300, "2 hours" 7200, "1 day" 86400, "45" 45,
\* "garbage" 1
C17_Examples ==
    /\ parseTtl(<<"A", "u", "t", "o">>) = 1
    /\ parseTtl(<<"5", " ", "m", "i", "n">>) = 300
    /\ parseTtl(<<"2", " ", "h", "o", "u", "r", "s">>) = 7200
    /\ parseTtl(<<"1", " ", "d", "a", "y">>) = 86400
    /\ parseTtl(<<"4", "5">>) = 45
    /\ parseTtl(<<"g", "a", "r", "b", "a", "g", "e">>) = 1

AlnumChars ==
    DigitChars \cup {LowerLetters[i] : i \in 1..Len(LowerLetters)}
               \cup {UpperLetters[i] : i \in 1..Len(UpperLetters)}

RECURSIVE JoinedRuns(_)
\* The runs of letters and digits of s, in order, joined by one underscore
JoinedRuns(s) ==
    LET others == {s[i] : i \in 1..Len(s)} \ AlnumChars
        text == DropWhile(s, others)
        rest == JoinedRuns(DropWhile(text, AlnumChars))
    IN IF text = <<>> THEN <<>>
       ELSE TakeWhile(text, AlnumChars)
                \o (IF rest = <<>> THEN <<>> ELSE <<"_">> \o rest)

\* Whether s holds two underscores in a row, or starts or ends with one
LooseUnderscore(s) ==
    \/ \E i \in 1..(Len(s) - 1) : s[i] = "_" /\ s[i + 1] = "_"
    \/ s # <<>> /\ (s[1] = "_" \/ s[Len(s)] = "_")

\* C18: toTerraformResourceName(name, type) is the lower-cased type, an
\* underscore and the slug of name, with r_ in front when that starts with a
\* digit; the slug is name with every period and every character outside
\* [A-Za-z0-9_] made an underscore, runs of underscores collapsed and
\* underscores at both ends trimmed, so the part of the result that comes
\* from the slug has no two underscores in a row and none at either end.
C18_ResourceName ==
    Returned("toTerraformResourceName") =>
        LET slug == JoinedRuns(fArgs[1])
            typed == ToLowerCase(fArgs[2]) \o <<"_">> \o slug
            fromSlug == SubSeq(fResult, Len(fResult) - Len(slug) + 1,
                               Len(fResult))
        IN /\ fResult = IF Head(typed) \in DigitChars
                        THEN <<"r", "_">> \o typed ELSE typed
           /\ fromSlug = slug
           /\ ~LooseUnderscore(fromSlug)

\* toTerraformResourceName("*.example.com", "CNAME") has returned
\* cname_example_com
C18_WildcardExample ==
    /\ Returned("toTerraformResourceName")
    /\ fArgs = <<<<"*", ".", "e", "x", "a", "m", "p", "l", "e", ".", "c", "o", "m">>,
                 <<"C", "N", "A", "M", "E">>>>
    /\ fResult = <<"c", "n", "a", "m", "e", "_", "e", "x", "a", "m", "p", "l", "e", "_", "c", "o", "m">>

\* The other example, and a result that starts with a digit
C18_Examples ==
    /\ toTerraformResourceName(<<"w", "w", "w", ".", "e", "x", "a", "m", "p", "l", "e", ".", "c", "o", "m">>,
                               <<"A">>)
           = <<"a", "_", "w", "w", "w", "_", "e", "x", "a", "m", "p", "l", "e", "_", "c", "o", "m">>
    /\ toTerraformResourceName(<<"w", "w", "w">>, <<"6", "t", "o", "4">>)
           = <<"r", "_", "6", "t", "o", "4", "_", "w", "w", "w">>

\* Whether id is 32 lower-case hexadecimal characters
IsRecordId(id) ==
    /\ Len(id) = 32
    /\ \A i \in 1..32 : id[i] \in DigitChars \cup {"a", "b", "c", "d", "e", "f"}

\* C19: extractRecordId returns the identifier unchanged exactly when the
\* attribute's value is 32 lower-case hexadecimal characters immediately
\* followed by -dns-edit-row and nothing else; for a missing attribute,
\* another suffix, another length, upper-case digits, or text before or
\* after, it returns absent.
C19_ExactShapeOnly ==
    Returned("extractRecordId") =>
        /\ fArgs[1] = Null => fResult = Null
        /\ \A b \in ControlsBefore, id \in ControlsIds,
              s \in ControlsSuffixes, a \in ControlsAfter :
               fArgs[1] = b \o id \o s \o a =>
                   IF b = <<>> /\ a = <<>> /\ s = ID_SUFFIX /\ IsRecordId(id)
                   THEN fResult = id
                   ELSE fResult = Null

\* extractRecordId has returned the identifier of a well-formed value
C19_IdentifierReturned ==
    /\ Returned("extractRecordId")
    /\ fArgs = <<RecordIdOf(2) \o ID_SUFFIX>>
    /\ fResult = RecordIdOf(2)
    /\ fResult # Null

(***************************************************************************)
(* The options page: its textareas, its Save and Reset buttons, its status *)
(* element, and its reads and writes of the store.                         *)
(***************************************************************************)
SAVED_MESSAGE ==
    <<"T", "e", "m", "p", "l", "a", "t", "e", "s", " ", "s", "a", "v", "e", "d", " ", "s",
     "u", "c", "c", "e", "s", "s", "f", "u", "l", "l", "y", "!">>

SAVE_FAILED_MESSAGE ==
    <<"F", "a", "i", "l", "e", "d", " ", "t", "o", " ", "s", "a", "v", "e", " ", "t", "e",
     "m", "p", "l", "a", "t", "e", "s", ".", " ", "P", "l", "e", "a", "s", "e", " ", "t",
     "r", "y", " ", "a", "g", "a", "i", "n", ".">>

RESET_MESSAGE ==
    <<"T", "e", "m", "p", "l", "a", "t", "e", "s", " ", "r", "e", "s", "e", "t", " ", "t",
     "o", " ", "d", "e", "f", "a", "u", "l", "t", "s", ".">>

RESET_FAILED_MESSAGE ==
    <<"F", "a", "i", "l", "e", "d", " ", "t", "o", " ", "r", "e", "s", "e", "t", " ", "t",
     "e", "m", "p", "l", "a", "t", "e", "s", ".", " ", "P", "l", "e", "a", "s", "e", " ",
     "t", "r", "y", " ", "a", "g", "a", "i", "n", ".">>

\* What the user may leave in a textarea
EditTexts == {CUSTOM_RESOURCE, CUSTOM_IMPORT, <<>>}

\* showStatus up to its setTimeout: the status element it leaves
showStatus(message, type) ==
    [textContent |-> message, className |-> "status " \o type]

\* The options page as its script leaves it: the read of loadTemplates
\* is pending, the buttons have their listeners, the textareas are as the
\* document gives them.
OptionsInit ==
    /\ MainIdle
    /\ RenderOff
    /\ FunctionsOff
    /\ oPc = "loading"
    /\ resourceTextarea = <<>>
    /\ importTextarea = <<>>
    /\ statusDiv = [textContent |-> <<>>, className |-> "status"]
    /\ setCalls = <<>>
    /\ statusTimers = 0

optionsFrame ==
    <<variant, page, initPc, templateVars, getReply, copyVars, scans,
      renderVars, functionVars>>

\* loadTemplates of the options page after its await: the textareas take the
\* stored templates or the defaults, and the defaults when the read failed
OptionsLoaded(ok) ==
    /\ oPc = "loading"
    /\ oPc' = "ready"
    /\ resourceTextarea' =
           IF ok THEN TemplateOrDefault(store[STORAGE_KEY_RESOURCE],
                                        STORAGE_KEY_RESOURCE)
           ELSE DEFAULT_RESOURCE_TEMPLATE
    /\ importTextarea' =
           IF ok THEN TemplateOrDefault(store[STORAGE_KEY_IMPORT],
                                        STORAGE_KEY_IMPORT)
           ELSE DEFAULT_IMPORT_TEMPLATE
    /\ UNCHANGED <<statusDiv, setCalls, statusTimers, store, notifications,
                   ops, optionsFrame>>

\* The user edits a textarea
OptionsEdit(key, text) ==
    /\ ops < MaxOps
    /\ ops' = ops + 1
    /\ IF key = STORAGE_KEY_RESOURCE
       THEN /\ resourceTextarea # text
            /\ resourceTextarea' = text
            /\ UNCHANGED importTextarea
       ELSE /\ importTextarea # text
            /\ importTextarea' = text
            /\ UNCHANGED resourceTextarea
    /\ UNCHANGED <<oPc, statusDiv, setCalls, statusTimers, store,
                   notifications, optionsFrame>>

\* saveTemplates up to its await, on a click on Save: the store is asked
\* to set the two keys to what the textareas hold
saveTemplates ==
    /\ ops < MaxOps
    /\ ops' = ops + 1
    /\ setCalls' =
           Append(setCalls,
                  [by |-> "save",
                   items |-> [k \in StorageKeys |->
                                 IF k = STORAGE_KEY_RESOURCE
                                 THEN resourceTextarea ELSE importTextarea]])
    /\ UNCHANGED <<oPc, resourceTextarea, importTextarea, statusDiv,
                   statusTimers, store, notifications, optionsFrame>>

\* resetTemplates up to its await, on a click on Reset: the textareas take
\* the defaults and the store is asked to set the two keys to them
resetTemplates ==
    /\ ops < MaxOps
    /\ ops' = ops + 1
    /\ resourceTextarea' = DEFAULT_RESOURCE_TEMPLATE
    /\ importTextarea' = DEFAULT_IMPORT_TEMPLATE
    /\ setCalls' = Append(setCalls, [by |-> "reset", items |-> DefaultTemplates])
    /\ UNCHANGED <<oPc, statusDiv, statusTimers, store, notifications,
                   optionsFrame>>

\* The message of a settled write
StatusMessage(by, ok) ==
    IF by = "save" THEN (IF ok THEN SAVED_MESSAGE ELSE SAVE_FAILED_MESSAGE)
    ELSE (IF ok THEN RESET_MESSAGE ELSE RESET_FAILED_MESSAGE)

\* A settled write that stores its items whether the store took them or not
OptionsSetSettledStoresAnyway(i, ok) ==
    LET call == setCalls[i]
        changed == {k \in StorageKeys : store[k] # call.items[k]}
    IN /\ i \in 1..Len(setCalls)
       /\ store' = call.items
       /\ notifications' =
              IF listening /\ changed # {}
              THEN Append(notifications,
                          [areaName |-> "sync",
                           changes |-> [k \in changed |-> call.items[k]]])
              ELSE notifications
       /\ statusDiv' =
              showStatus(StatusMessage(call.by, ok),
                         IF ok THEN "success" ELSE "error")
       /\ statusTimers' = statusTimers + 1
       /\ setCalls' = Without(setCalls, i)
       /\ UNCHANGED <<oPc, resourceTextarea, importTextarea, ops, optionsFrame>>

\* The store settles a write of the options page, and saveTemplates or
\* resetTemplates goes on after its await: a write the store took is in the
\* store and is reported as a success, a write it refused has changed
\* nothing and is caught and reported as a failure; showStatus starts its
\* timer.
OptionsSetSettled(i, ok) ==
    LET call == setCalls[i]
        changed == {k \in StorageKeys : store[k] # call.items[k]}
    IN /\ i \in 1..Len(setCalls)
       /\ store' = IF ok THEN call.items ELSE store
       /\ notifications' =
              IF ok /\ listening /\ changed # {}
              THEN Append(notifications,
                          [areaName |-> "sync",
                           changes |-> [k \in changed |-> call.items[k]]])
              ELSE notifications
       /\ statusDiv' =
              showStatus(StatusMessage(call.by, ok),
                         IF ok THEN "success" ELSE "error")
       /\ statusTimers' = statusTimers + 1
       /\ setCalls' = Without(setCalls, i)
       /\ UNCHANGED <<oPc, resourceTextarea, importTextarea, ops, optionsFrame>>

\* The oldest of showStatus's timers fires after its 3000 ms
StatusTimerFire ==
    /\ statusTimers > 0
    /\ statusTimers' = statusTimers - 1
    /\ statusDiv' = [statusDiv EXCEPT !.className = "status"]
    /\ UNCHANGED <<oPc, resourceTextarea, importTextarea, setCalls, store,
                   notifications, ops, optionsFrame>>

OptionsNext ==
    \/ \E ok \in BOOLEAN : OptionsLoaded(ok)
    \/ \E key \in StorageKeys, text \in EditTexts : OptionsEdit(key, text)
    \/ saveTemplates
    \/ resetTemplates
    \/ \E i \in 1..Len(setCalls), ok \in BOOLEAN : OptionsSetSettled(i, ok)
    \/ StatusTimerFire

\* The store settles every write and the browser fires every timer
SpecOptions ==
    /\ OptionsInit
    /\ [][OptionsNext]_vars
    /\ WF_vars(StatusTimerFire)
    /\ WF_vars(\E i \in 1..Len(setCalls), ok \in BOOLEAN :
                   OptionsSetSettled(i, ok))

\* The status element shows a message
StatusShown == statusDiv.className # "status"

\* C21: a failed save or reset is reported and changes nothing in the store;
\* a successful one is reported as a success and leaves in the store exactly
\* the two texts of the textareas at the click (save) or the two defaults
\* (reset); either way the status message is eventually hidden again.
C21_StoreFailuresReported ==
    /\ [][/\ Len(setCalls') > Len(setCalls) =>
                 LET call == setCalls'[Len(setCalls')]
                 IN /\ call.items[STORAGE_KEY_RESOURCE] = resourceTextarea'
                    /\ call.items[STORAGE_KEY_IMPORT] = importTextarea'
                    /\ call.by = "save" =>
                           /\ resourceTextarea' = resourceTextarea
                           /\ importTextarea' = importTextarea
                    /\ call.by = "reset" => call.items = DefaultTemplates
                    /\ UNCHANGED <<store, statusDiv>>
          /\ Len(setCalls') < Len(setCalls) =>
                 \E i \in 1..Len(setCalls) :
                     LET call == setCalls[i]
                     IN /\ setCalls' = Without(setCalls, i)
                        /\ \/ /\ statusDiv'.className = "status success"
                              /\ statusDiv'.textContent =
                                     IF call.by = "save" THEN SAVED_MESSAGE
                                     ELSE RESET_MESSAGE
                              /\ store' = call.items
                           \/ /\ statusDiv'.className = "status error"
                              /\ statusDiv'.textContent =
                                     IF call.by = "save"
                                     THEN SAVE_FAILED_MESSAGE
                                     ELSE RESET_FAILED_MESSAGE
                              /\ store' = store
          /\ Len(setCalls') = Len(setCalls) => store' = store]_vars
    /\ StatusShown ~> ~StatusShown

\* A reset has failed after a save that succeeded: the status reports the
\* failure, and the store still holds the saved text although the textarea
\* shows the default
C21_FailedResetKeepsSaved ==
    /\ statusDiv = showStatus(RESET_FAILED_MESSAGE, "error")
    /\ store[STORAGE_KEY_RESOURCE] = CUSTOM_RESOURCE
    /\ resourceTextarea = DEFAULT_RESOURCE_TEMPLATE
    /\ setCalls = <<>>

\* C23: the empty-slug fallback is unreachable: for every name and type, the
\* empty string for either included, the value toTerraformResourceName has
\* computed before its final fallback is non-empty and is what it returns,
\* so the branch that yields the literal dns_record is never taken.
C23_FallbackUnreachable ==
    Returned("toTerraformResourceName") =>
        /\ resourceNameBeforeFallback(fArgs[1], fArgs[2]) # <<>>
        /\ fResult = resourceNameBeforeFallback(fArgs[1], fArgs[2])
        /\ Len(fResult) >= Len(fArgs[2]) + 1

\* toTerraformResourceName("*", "") has returned "_": the slug and the type
\* are both empty, and the result is not dns_record
C23_EmptySlugAndType ==
    /\ Returned("toTerraformResourceName")
    /\ fArgs = <<<<"*">>, <<>>>>
    /\ JoinedRuns(fArgs[1]) = <<>>
    /\ fResult = <<"_">>
    /\ fResult # DNS_RECORD

====
